---- MODULE Spec2Model ----
(***************************************************************************)
(* A model of the GitHub code agent action (olemp/code-agent):             *)
(*   - the change detection between two file states (detectChanges),       *)
(*   - the event classification and trigger resolution (getEventType,      *)
(*     processEvent and their helpers),                                    *)
(*   - one run of the action (run, checkPermission, runAction, the agent   *)
(*     clients and handleResult).                                          *)
(*   - the assembly of the prompt (generatePrompt, genContentsString),     *)
(*   - the capture of the workspace's file state (captureFileState),       *)
(*   - the posting of a comment with its retries (postComment).            *)
(* Texts are TLA+ strings; JavaScript's null, undefined and '' are all     *)
(* falsy where the code tests them, and are written "" here.               *)
(***************************************************************************)
EXTENDS Integers, Sequences, FiniteSets, TLC

VARIABLES
  \* change detection
  originalState, currentState, changedFiles, dpc,
  \* the workspace the file states are captured from
  workspace, before, options,
  \* trigger resolution
  payload, config, agentEvent, result, rpc,
  \* the configuration as handed to the first resolution, and the outcome
  \* of the first of two resolutions
  given, first,
  \* one run of the action
  pc, permission, hasPermission, effects, fetched, prompt, output, error,
  failed,
  \* one call of postComment
  post

captureVars == <<workspace, before, options>>
diffVars == <<originalState, currentState, changedFiles, dpc, captureVars>>
resolveVars == <<payload, config, agentEvent, result, rpc, given, first>>
runVars ==
  <<pc, permission, hasPermission, effects, fetched, prompt, output, error,
    failed>>
vars == <<originalState, currentState, changedFiles, dpc,
          workspace, before, options,
          payload, config, agentEvent, result, rpc, given, first,
          pc, permission, hasPermission, effects, fetched, prompt, output,
          error, failed, post>>

---------------------------------------------------------------------------
(* Bounds *)

MaxPaths == 3
MaxLabels == 2

---------------------------------------------------------------------------
(* String helpers: the JavaScript String methods the code calls *)

RECURSIVE IndexOfFrom(_, _, _)
\* String.prototype.indexOf(pat, from), 1-based; 0 when pat does not occur
IndexOfFrom(s, pat, i) ==
  IF i + Len(pat) - 1 > Len(s) THEN 0
  ELSE IF SubSeq(s, i, i + Len(pat) - 1) = pat THEN i
  ELSE IndexOfFrom(s, pat, i + 1)

IndexOf(s, pat) == IndexOfFrom(s, pat, 1)

Includes(s, pat) ==
  \E i \in 1..(Len(s) - Len(pat) + 1) : SubSeq(s, i, i + Len(pat) - 1) = pat

StartsWith(s, pat) ==
  Len(s) >= Len(pat) /\ SubSeq(s, 1, Len(pat)) = pat

IsWhiteSpace(c) == c \in {" ", "\n", "\t"}

RECURSIVE TrimStart(_)
TrimStart(s) ==
  IF Len(s) > 0 /\ IsWhiteSpace(SubSeq(s, 1, 1))
  THEN TrimStart(SubSeq(s, 2, Len(s)))
  ELSE s

RECURSIVE TrimEnd(_)
TrimEnd(s) ==
  IF Len(s) > 0 /\ IsWhiteSpace(SubSeq(s, Len(s), Len(s)))
  THEN TrimEnd(SubSeq(s, 1, Len(s) - 1))
  ELSE s

\* String.prototype.trim
Trim(s) == TrimEnd(TrimStart(s))

\* String.prototype.replace(pat, rep) with a string pattern: the first
\* occurrence only
ReplaceFirst(s, pat, rep) ==
  LET i == IndexOf(s, pat) IN
  IF i = 0 THEN s
  ELSE SubSeq(s, 1, i - 1) \o rep \o SubSeq(s, i + Len(pat), Len(s))

RECURSIVE ReplaceAll(_, _, _)
\* String.prototype.replaceAll(pat, rep) with a non-empty string pattern
ReplaceAll(s, pat, rep) ==
  LET i == IndexOf(s, pat) IN
  IF i = 0 THEN s
  ELSE SubSeq(s, 1, i - 1) \o rep
         \o ReplaceAll(SubSeq(s, i + Len(pat), Len(s)), pat, rep)

---------------------------------------------------------------------------
(* Change detection: src/file/detectChanges.ts *)

AllPaths == <<"a.ts", "b.ts", "c.ts", "d.ts", "e.ts">>
Paths == {AllPaths[i] : i \in 1..MaxPaths}
Digests == {"h1", "h2"}

\* a file state: Map<relativePath, hash>
FileStates == UNION {[S -> Digests] : S \in SUBSET Paths}

EmptyState == [p \in {} |-> "h1"]

\* the two loops of detectChanges, the first one dropped
DetectNoDeletions(original, current) ==
  {f \in DOMAIN current :
     \/ f \notin DOMAIN original
     \/ original[f] # current[f]}

\* the two loops of detectChanges over the re-captured state
DetectChangesOf(original, current) ==
  {f \in DOMAIN current :
     \/ f \notin DOMAIN original
     \/ (f \in DOMAIN original /\ original[f] # current[f])}
  \cup {f \in DOMAIN original : f \notin DOMAIN current}

\* runAction lines 39-42: the state of the files before the agent runs, any
\* file state of S
CaptureStep(S) ==
  /\ dpc = "start"
  /\ \E orig \in S : originalState' = orig
  /\ dpc' = "captured"
  /\ UNCHANGED <<currentState, changedFiles, captureVars>>

\* detectChanges(workspace, originalState, config): the current state is
\* re-captured from the workspace, here any file state of S
DetectStep(S) ==
  /\ dpc = "captured"
  /\ \E cur \in S :
       /\ currentState' = cur
       /\ changedFiles' = DetectChangesOf(originalState, cur)
  /\ dpc' = "detected"
  /\ UNCHANGED <<originalState, captureVars>>

CaptureOriginal ==
  /\ CaptureStep(FileStates)
  /\ UNCHANGED <<resolveVars, runVars, post>>

DetectChanges ==
  /\ DetectStep(FileStates)
  /\ UNCHANGED <<resolveVars, runVars, post>>

---------------------------------------------------------------------------
(* The capture of a file state: captureFileState of src/github.ts *)

\* an absent object (undefined) is <<>>, a present one is <<object>>
Absent == <<>>
Some(x) == <<x>>
Has(o) == o # <<>>
Get(o) == o[1]

\* the paths of the workspace: the repository's files, its ignore file and
\* files in the directories of the hard-coded exclusions
FsPaths ==
  {".git/config", ".gitignore", "node_modules/x.js", "dist/out.js",
   "secrets/key.txt", "debug.log", "src/a.ts"}

\* a path of the workspace: missing, or a file with its size, the hash of
\* its content (for the ignore file the content itself) and whether
\* statSync and the hashing succeed on it
Missing == [exists |-> FALSE, size |-> 0, hash |-> "", readable |-> FALSE]
File(size, hash) ==
  [exists |-> TRUE, size |-> size, hash |-> hash, readable |-> TRUE]
Unreadable(size) ==
  [exists |-> TRUE, size |-> size, hash |-> "", readable |-> FALSE]

EmptyWorkspace == [p \in FsPaths |-> Missing]

\* IFileCaptureOptions: an option not given is Absent
NoOptions ==
  [maxFileSizeBytes |-> Absent, excludeFileTypes |-> Absent,
   excludePatterns |-> Absent, includePatterns |-> Absent]

DEFAULT_MAX_FILE_SIZE == 1024 * 1024

DEFAULT_EXCLUDED_FILE_TYPES ==
  {".exe", ".dll", ".so", ".dylib", ".obj", ".o",
   ".zip", ".tar", ".gz", ".7z", ".rar",
   ".jpg", ".jpeg", ".png", ".gif", ".bmp", ".ico", ".webp",
   ".mp3", ".mp4", ".avi", ".mov", ".wav",
   ".pdf", ".doc", ".docx", ".ppt", ".pptx", ".xls", ".xlsx",
   ".class", ".pyc", ".pyo", ".pyd",
   ".log"}

\* the rules added to the matcher before the caller's and the ignore file's
HardCodedRules ==
  <<".git/**", "node_modules/**", "**/dist/**", "**/build/**", "**/.cache/**">>

\* a pattern of the ignore package or of glob matches the path; the forms
\* are **/*, **/d/**, d/**, *.ext and a file's path
PatternMatches(pattern, path) ==
  IF pattern = "**/*" THEN TRUE
  ELSE IF StartsWith(pattern, "**/") /\ Len(pattern) > 6
          /\ SubSeq(pattern, Len(pattern) - 2, Len(pattern)) = "/**"
  THEN LET d == SubSeq(pattern, 4, Len(pattern) - 2)
       IN StartsWith(path, d) \/ Includes(path, "/" \o d)
  ELSE IF Len(pattern) > 3
          /\ SubSeq(pattern, Len(pattern) - 2, Len(pattern)) = "/**"
  THEN StartsWith(path, SubSeq(pattern, 1, Len(pattern) - 2))
  ELSE IF StartsWith(pattern, "*.")
  THEN Len(path) >= Len(pattern) - 1
       /\ SubSeq(path, Len(path) - Len(pattern) + 2, Len(path))
            = SubSeq(pattern, 2, Len(pattern))
  ELSE pattern = path

\* a rule of the matcher: a pattern, negated when written with a leading !
IsNegated(rule) == StartsWith(rule, "!")
RulePattern(rule) == IF IsNegated(rule) THEN SubSeq(rule, 2, Len(rule)) ELSE rule

RECURSIVE IgnoredFrom(_, _, _, _)
\* ignore().add(rules).ignores(path): the rules are tried in the order they
\* were added and the last rule that matches decides, a negated rule
\* re-including the path (no pattern of the model matches a directory, so
\* no path is held back by an ignored parent)
IgnoredFrom(rules, path, i, sofar) ==
  IF i > Len(rules) THEN sofar
  ELSE IF PatternMatches(RulePattern(rules[i]), path)
  THEN IgnoredFrom(rules, path, i + 1, ~IsNegated(rules[i]))
  ELSE IgnoredFrom(rules, path, i + 1, sofar)

Ignored(rules, path) == IgnoredFrom(rules, path, 1, FALSE)

---------------------------------------------------------------------------
(* Event payloads and configuration *)

LabelNames == {"claude", "codex", "bug"}

\* label lists of an issue, in list order
LabelLists == UNION {[1..n -> LabelNames] : n \in 0..MaxLabels}

\* (title, body) of the issue of the payload
IssueTexts ==
  { <<"Add logging", "need structured logs">>,
    <<"Add logging", "">>,
    <<"", "need structured logs">>,
    <<"Add logging", "/claude please fix the typo">>,
    <<"Tune", "^^^yaml config\ntriggerLabels: [bug]\n^^^">> }

Issues ==
  {Absent} \cup
  { Some([pull_request |-> pr, title |-> t[1], body |-> t[2], labels |-> l]) :
      pr \in BOOLEAN, t \in IssueTexts, l \in LabelLists }

PullRequests ==
  { Absent,
    Some([title |-> "Fix bug", body |-> "it crashes", labels |-> <<"Codex">>]),
    Some([title |-> "", body |-> "", labels |-> <<>>]) }

CommentBodies ==
  { "/claude please fix the typo", "/claude  ", "/codex add tests\n",
    " /claude indented", "/Claude upper", "looks good", "" }

Comments ==
  {Absent} \cup
  { Some([body |-> b, path |-> "", line |-> 0]) : b \in CommentBodies } \cup
  { Some([body |-> b, path |-> "src/a.ts", line |-> 12]) :
      b \in {"/codex add tests\n", "looks good"} }

Actions == {"opened", "created", "labeled"}

\* the label a label event carries
AddedLabels == {Absent, Some([name |-> "claude"]), Some([name |-> "Bug"])}

\* only the payload of a label event carries the label
Payloads ==
  { p \in [action : Actions, issue : Issues, pull_request : PullRequests,
           comment : Comments, label : AddedLabels] :
      Has(p.label) => p.action = "labeled" }

\* the configuration getConfig builds; triggerLabels: null is Absent, a list
\* l is Some(l); triggerType: null is ""; actor is context.actor;
\* maxContextTokens: undefined is 0
BaseConfig ==
  [triggerLabels |-> Absent, triggerType |-> "",
   actor |-> "alice",
   githubToken |-> "ghp_T", anthropicApiKey |-> "sk-ant",
   awsAccessKeyId |-> "", awsSecretAccessKey |-> "",
   anthropicBaseUrl |-> "", anthropicBedrockBaseUrl |-> "",
   openaiApiKey |-> "sk-oai", openaiBaseUrl |-> "",
   enableContextTruncation |-> FALSE, maxContextTokens |-> 0,
   maxHistoryComments |-> 0, maxChangedFilesInContext |-> 0,
   disabled |-> FALSE]

Configs ==
  { [BaseConfig EXCEPT !.triggerLabels = c[1], !.triggerType = c[2]] :
      c \in { <<Absent, "">>, <<Some(<<>>), "">>, <<Some(<<"bug">>), "">>,
              <<Some(<<"bug">>), "codex">> } }

---------------------------------------------------------------------------
(* Event classification: getEventType *)

\* the tests of getEventType with the review-comment test moved first
getEventTypeReviewFirst(p) ==
  IF p.action = "created" /\ Has(p.pull_request) /\ Has(p.comment)
       /\ Get(p.comment).path # ""
  THEN "pullRequestReviewCommentCreated"
  ELSE IF p.action = "opened" /\ Has(p.issue) /\ ~Get(p.issue).pull_request
  THEN "issuesOpened"
  ELSE IF p.action = "created" /\ Has(p.issue) /\ ~Get(p.issue).pull_request
            /\ Has(p.comment)
  THEN "issueCommentCreated"
  ELSE IF p.action = "created" /\ Has(p.issue) /\ Get(p.issue).pull_request
            /\ Has(p.comment)
  THEN "pullRequestCommentCreated"
  ELSE "null"

\* getEventType(payload): the type of the AgentEvent, or "null"
getEventType(p) ==
  IF p.action = "opened" /\ Has(p.issue) /\ ~Get(p.issue).pull_request
  THEN "issuesOpened"
  ELSE IF p.action = "created" /\ Has(p.issue) /\ ~Get(p.issue).pull_request
            /\ Has(p.comment)
  THEN "issueCommentCreated"
  ELSE IF p.action = "created" /\ Has(p.issue) /\ Get(p.issue).pull_request
            /\ Has(p.comment)
  THEN "pullRequestCommentCreated"
  ELSE IF p.action = "created" /\ Has(p.pull_request) /\ Has(p.comment)
            /\ Get(p.comment).path # ""
  THEN "pullRequestReviewCommentCreated"
  ELSE "null"

---------------------------------------------------------------------------
(* Helpers of processEvent *)

\* extractText(event): the issue body of an opened issue, the comment body
\* of a created comment, null ("") otherwise
extractText(p) ==
  IF p.action = "opened" /\ Has(p.issue) THEN Get(p.issue).body
  ELSE IF p.action = "created" /\ Has(p.comment) THEN Get(p.comment).body
  ELSE ""

UpperCase == "ABCDEFGHIJKLMNOPQRSTUVWXYZ"
LowerCase == "abcdefghijklmnopqrstuvwxyz"

RECURSIVE ToLowerCase(_)
\* String.prototype.toLowerCase
ToLowerCase(s) ==
  IF Len(s) = 0 THEN ""
  ELSE LET c == SubSeq(s, 1, 1)
           i == IndexOf(UpperCase, c)
       IN (IF i = 0 THEN c ELSE SubSeq(LowerCase, i, i))
            \o ToLowerCase(SubSeq(s, 2, Len(s)))

LowerAll(labels) == [i \in 1..Len(labels) |-> ToLowerCase(labels[i])]

\* extractLabels(eventPayload): the issue's labels, else the pull
\* request's, else the label of a label event
extractLabels(p) ==
  IF Has(p.issue) THEN LowerAll(Get(p.issue).labels)
  ELSE IF Has(p.pull_request) THEN LowerAll(Get(p.pull_request).labels)
  ELSE IF Has(p.label) THEN <<ToLowerCase(Get(p.label).name)>>
  ELSE <<>>

\* a value of config.triggerLabels that is not a list: a number or an
\* object, with its length property (0 stands for none: undefined > 0 is
\* false)
OddValue(shape, length) == <<<<>>, shape, length>>
IsOdd(v) == Len(v) = 3

\* config.triggerLabels.length
LengthOf(v) == IF IsOdd(v) THEN v[3] ELSE Len(Get(v))

\* the opening line and the closing fence of a configuration block; the
\* backquote of the source is written ^ here
YamlOpen == "^^^yaml config\n"
Fence == "^^^"

\* yaml.load on the contents the model's bodies carry: the override object
\* as a set of <<key, value>> pairs, or a parse failure
YamlLoad(content) ==
  IF content = "triggerLabels: [bug]"
  THEN [ok |-> TRUE, entries |-> {<<"triggerLabels", Some(<<"bug">>)>>}]
  ELSE IF content = "triggerType: codex"
  THEN [ok |-> TRUE, entries |-> {<<"triggerType", "codex">>}]
  ELSE IF content = "triggerLabels: 5"
  THEN [ok |-> TRUE, entries |-> {<<"triggerLabels", OddValue("number", 0)>>}]
  ELSE IF content = "triggerLabels: {length: 1}"
  THEN [ok |-> TRUE, entries |-> {<<"triggerLabels", OddValue("object", 1)>>}]
  ELSE [ok |-> FALSE, entries |-> {}]

\* extractConfigOverrides(body): the entries of the first yaml config block,
\* none when there is no block or it does not parse
extractConfigOverrides(body) ==
  LET i == IndexOf(body, YamlOpen) IN
  IF body = "" \/ i = 0 THEN {}
  ELSE LET rest == SubSeq(body, i + Len(YamlOpen), Len(body))
           j == IndexOf(rest, Fence)
       IN IF j = 0 THEN {}
          ELSE LET content == Trim(SubSeq(rest, 1, j - 1)) IN
               IF content = "" THEN {} ELSE YamlLoad(content).entries

\* processEvent lines 26-40: the overrides of the issue or pull-request body
\* written into the configuration
ApplyOverrides(p, cfg) ==
  LET issueBody ==
        IF Has(p.issue) /\ Get(p.issue).body # "" THEN Get(p.issue).body
        ELSE IF Has(p.pull_request) THEN Get(p.pull_request).body
        ELSE ""
      ov == extractConfigOverrides(issueBody)
  IN [k \in DOMAIN cfg |->
        IF \E e \in ov : e[1] = k
        THEN (CHOOSE e \in ov : e[1] = k)[2]
        ELSE cfg[k]]

---------------------------------------------------------------------------
(* Trigger resolution: processEvent *)

NoTrigger == [triggered |-> FALSE, type |-> "", eventType |-> "", userPrompt |-> ""]

\* processEvent lines 45-54 without the trim of the rest of the text
CommandOfNoTrim(text) ==
  IF text # "" /\ StartsWith(text, "/claude")
  THEN [type |-> "claude", userPrompt |-> ReplaceFirst(text, "/claude", "")]
  ELSE IF text # "" /\ StartsWith(text, "/codex")
  THEN [type |-> "codex", userPrompt |-> ReplaceFirst(text, "/codex", "")]
  ELSE [type |-> "", userPrompt |-> ""]

\* processEvent lines 45-54: the command at the start of the text
CommandOf(text) ==
  IF text # "" /\ StartsWith(text, "/claude")
  THEN [type |-> "claude", userPrompt |-> Trim(ReplaceFirst(text, "/claude", ""))]
  ELSE IF text # "" /\ StartsWith(text, "/codex")
  THEN [type |-> "codex", userPrompt |-> Trim(ReplaceFirst(text, "/codex", ""))]
  ELSE [type |-> "", userPrompt |-> ""]

RECURSIVE LabelType(_, _, _)
\* processEvent lines 59-73: the agent of the first label, from index i on,
\* that is 'claude', 'codex' or a configured trigger label; "TypeError" when
\* config.triggerLabels.includes is called on a value that has no such method
LabelType(labels, cfg, i) ==
  IF i > Len(labels) THEN ""
  ELSE IF labels[i] = "claude" THEN "claude"
  ELSE IF labels[i] = "codex" THEN "codex"
  ELSE IF IsOdd(cfg.triggerLabels) THEN "TypeError"
  ELSE IF \E k \in 1..Len(Get(cfg.triggerLabels)) :
            Get(cfg.triggerLabels)[k] = labels[i]
  THEN (IF cfg.triggerType # "" THEN cfg.triggerType ELSE "claude")
  ELSE LabelType(labels, cfg, i + 1)

\* processEvent lines 75-89 with the body left out of the instruction
DefaultPromptNoBody(p) ==
  IF Has(p.issue) /\ Get(p.issue).title # ""
  THEN "Review and address this issue: " \o Get(p.issue).title \o "\n\n"
  ELSE IF Has(p.pull_request) /\ Get(p.pull_request).title # ""
  THEN "Review this pull request: " \o Get(p.pull_request).title \o "\n\n"
  ELSE "Please review the changes and provide feedback."

\* processEvent lines 75-89: the instruction built when a label selected the
\* agent and the text holds no instruction
DefaultPrompt(p) ==
  IF Has(p.issue) /\ Get(p.issue).title # ""
  THEN "Review and address this issue: " \o Get(p.issue).title \o "\n\n"
         \o Get(p.issue).body
  ELSE IF Has(p.pull_request) /\ Get(p.pull_request).title # ""
  THEN "Review this pull request: " \o Get(p.pull_request).title \o "\n\n"
         \o Get(p.pull_request).body
  ELSE "Please review the changes and provide feedback."

\* processEvent line 56 without the test that no command was found
LabelBlockAfterCommand(cfg, type) ==
  Has(cfg.triggerLabels) /\ LengthOf(cfg.triggerLabels) > 0

\* processEvent line 56: the label block is entered only without a command
\* and with trigger labels whose length is above 0
LabelBlockEntered(cfg, type) ==
  type = "" /\ Has(cfg.triggerLabels) /\ LengthOf(cfg.triggerLabels) > 0

\* processEvent lines 92-102 without the test of the prompt
FinalResultUnchecked(type, eventType, userPrompt) ==
  IF type = "" THEN NoTrigger
  ELSE [triggered |-> TRUE, type |-> type, eventType |-> eventType,
        userPrompt |-> userPrompt]

\* processEvent lines 92-102: null without an agent or without a prompt
FinalResult(type, eventType, userPrompt) ==
  IF type = "" THEN NoTrigger
  ELSE IF userPrompt = "" THEN NoTrigger
  ELSE [triggered |-> TRUE, type |-> type, eventType |-> eventType,
        userPrompt |-> userPrompt]

\* processEvent with the overrides written into the configuration after
\* the decision instead of before it
processEventOverridesLate(p, cfg0) ==
  LET eventType == getEventType(p) IN
  IF eventType = "null"
  THEN [agentEvent |-> "null", result |-> NoTrigger, config |-> cfg0,
        threw |-> FALSE]
  ELSE
    LET cfg == cfg0
        cmd == CommandOf(extractText(p))
        inBlock == LabelBlockEntered(cfg, cmd.type)
        labelType == IF inBlock THEN LabelType(extractLabels(p), cfg, 1) ELSE ""
        type == IF labelType # "" THEN labelType ELSE cmd.type
        userPrompt ==
          IF inBlock /\ type # "" /\ cmd.userPrompt = "" THEN DefaultPrompt(p)
          ELSE cmd.userPrompt
    IN IF labelType = "TypeError"
       THEN [agentEvent |-> eventType, result |-> NoTrigger,
             config |-> ApplyOverrides(p, cfg0), threw |-> TRUE]
       ELSE [agentEvent |-> eventType,
             result |-> FinalResult(type, eventType, userPrompt),
             config |-> ApplyOverrides(p, cfg0), threw |-> FALSE]

\* processEvent(config): the event type, the ProcessedEvent (or null), the
\* configuration as the overrides leave it, and whether the call threw
\* (line 68) instead of returning
processEvent(p, cfg0) ==
  LET eventType == getEventType(p) IN
  IF eventType = "null"
  THEN [agentEvent |-> "null", result |-> NoTrigger, config |-> cfg0,
        threw |-> FALSE]
  ELSE
    LET cfg == ApplyOverrides(p, cfg0)
        cmd == CommandOf(extractText(p))
        inBlock == LabelBlockEntered(cfg, cmd.type)
        labelType == IF inBlock THEN LabelType(extractLabels(p), cfg, 1) ELSE ""
        type == IF labelType # "" THEN labelType ELSE cmd.type
        userPrompt ==
          IF inBlock /\ type # "" /\ cmd.userPrompt = "" THEN DefaultPrompt(p)
          ELSE cmd.userPrompt
    IN IF labelType = "TypeError"
       THEN [agentEvent |-> eventType, result |-> NoTrigger, config |-> cfg,
             threw |-> TRUE]
       ELSE [agentEvent |-> eventType,
             result |-> FinalResult(type, eventType, userPrompt),
             config |-> cfg, threw |-> FALSE]

\* one call of processEvent on the payload and the configuration
ProcessEvent ==
  /\ rpc = "start"
  /\ LET r == processEvent(payload, config) IN
       /\ agentEvent' = r.agentEvent
       /\ result' = r.result
       /\ config' = r.config
       /\ rpc' = IF r.threw THEN "threw" ELSE "done"
  /\ UNCHANGED <<payload, given, first>>
  /\ UNCHANGED <<diffVars, runVars, post>>

\* a second call of processEvent on the same payload and the same
\* configuration object, as the first call left it
ProcessEventAgain ==
  /\ rpc \in {"done", "threw"}
  /\ first = Absent
  /\ first' = Some([result |-> result, threw |-> rpc = "threw"])
  /\ LET r == processEvent(payload, config) IN
       /\ agentEvent' = r.agentEvent
       /\ result' = r.result
       /\ config' = r.config
       /\ rpc' = IF r.threw THEN "threw" ELSE "done"
  /\ UNCHANGED <<payload, given>>
  /\ UNCHANGED <<diffVars, runVars, post>>

---------------------------------------------------------------------------
(* Token estimation: src/utils/tokenEstimator.ts *)

\* estimateTokens(text): Math.ceil(text.length / 4), 0 for the empty text
estimateTokens(text) == (Len(text) + 3) \div 4

RECURSIVE LastIndexOfFrom(_, _, _)
\* String.prototype.lastIndexOf(pat), 1-based; 0 when pat does not occur
LastIndexOfFrom(s, pat, i) ==
  IF i < 1 THEN 0
  ELSE IF SubSeq(s, i, i + Len(pat) - 1) = pat THEN i
  ELSE LastIndexOfFrom(s, pat, i - 1)

LastIndexOf(s, pat) == LastIndexOfFrom(s, pat, Len(s) - Len(pat) + 1)

Max(a, b) == IF a >= b THEN a ELSE b

TruncationMarker == "\n\n[Content truncated to fit token limit]"

\* truncateToTokenLimit(text, maxTokens): the first floor(3.5 * maxTokens)
\* characters, cut back to the last '.' or newline when that keeps more than
\* 70% of them, and the marker
truncateToTokenLimit(text, maxTokens) ==
  IF text = "" \/ maxTokens <= 0 THEN ""
  ELSE IF estimateTokens(text) <= maxTokens THEN text
  ELSE LET maxChars == (7 * maxTokens) \div 2 IN
       IF Len(text) <= maxChars THEN text
       ELSE LET truncatedText == SubSeq(text, 1, maxChars)
                cut == Max(LastIndexOf(truncatedText, "."),
                           LastIndexOf(truncatedText, "\n"))
            IN IF 10 * (cut - 1) > 7 * maxChars
               THEN SubSeq(text, 1, cut) \o TruncationMarker
               ELSE truncatedText \o TruncationMarker

---------------------------------------------------------------------------
(* Prompt generation: genContentsString, generatePrompt *)

\* the quote marker put before the first line only
QuoteLinesFirstOnly(body) == "> " \o body

\* body.split("\n").map(line => `> ${line}`).join("\n")
QuoteLines(body) == "> " \o ReplaceAll(body, "\n", "\n> ")

\* genContentsString with the items of other authors passed on as they are
genContentsStringVerbatim(content, userPrompt) ==
  LET body == Trim(content.body)
      login == Trim(content.login)
  IN IF body = "" THEN ""
     ELSE IF StartsWith(body, "/claude")
     THEN LET rest == Trim(SubSeq(body, IndexOf(body, "/claude") + 7, Len(body)))
          IN IF rest = userPrompt THEN "" ELSE rest \o "\n\n"
     ELSE IF login = "github-actions[bot]"
     THEN QuoteLines(body) \o "\n\n"
     ELSE body \o "\n\n"

\* genContentsString(content, userPrompt)
genContentsString(content, userPrompt) ==
  LET body == Trim(content.body)
      login == Trim(content.login)
  IN IF body = "" THEN ""
     ELSE IF StartsWith(body, "/claude")
     THEN LET rest == Trim(SubSeq(body, IndexOf(body, "/claude") + 7, Len(body)))
          IN IF rest = userPrompt THEN "" ELSE rest \o "\n\n"
     ELSE IF login = "github-actions[bot]"
     THEN QuoteLines(body) \o "\n\n"
     ELSE ""

RECURSIVE Join(_, _)
\* Array.prototype.join
Join(items, sep) ==
  IF Len(items) = 0 THEN ""
  ELSE IF Len(items) = 1 THEN items[1]
  ELSE items[1] \o sep \o Join(Tail(items), sep)

\* Array.prototype.slice(-n): the last n items
LastItems(items, n) ==
  IF n >= Len(items) THEN items ELSE SubSeq(items, Len(items) - n + 1, Len(items))

\* Array.prototype.slice(0, n): the first n items
FirstItems(items, n) ==
  IF n >= Len(items) THEN items ELSE SubSeq(items, 1, n)

RECURSIVE HistoryOf(_, _)
\* generatePrompt lines 53-55: the comments formatted one after the other
HistoryOf(comments, userPrompt) ==
  IF Len(comments) = 0 THEN ""
  ELSE genContentsString(comments[1], userPrompt)
         \o HistoryOf(Tail(comments), userPrompt)

\* generatePrompt lines 63-72: the optional sections
ContextSections(history, contextInfo, files) ==
  (IF history # "" THEN "[History]\n" \o history \o "\n\n" ELSE "")
  \o (IF contextInfo # "" THEN "[Context]\n" \o contextInfo \o "\n\n" ELSE "")
  \o (IF Len(files) > 0 THEN "[Changed Files]\n" \o Join(files, "\n") \o "\n\n"
      ELSE "")

\* the sections cut to the whole limit, nothing set aside for the
\* instruction and the separators
TruncatedPromptNoReserve(sections, userPrompt, maxTokens) ==
  IF sections # ""
  THEN truncateToTokenLimit(sections, maxTokens) \o "---\n\n" \o userPrompt
  ELSE userPrompt

\* the token limit applied to the whole prompt, instruction included
TruncatedPromptWhole(sections, userPrompt, maxTokens) ==
  IF sections # ""
  THEN truncateToTokenLimit(sections \o "---\n\n" \o userPrompt, maxTokens)
  ELSE truncateToTokenLimit(userPrompt, maxTokens)

\* generatePrompt lines 82-104: the sections are cut to what the limit
\* leaves after the instruction and 50 tokens for separators, the
\* instruction is appended as it is
TruncatedPrompt(sections, userPrompt, maxTokens) ==
  IF sections # ""
  THEN truncateToTokenLimit(sections,
         maxTokens - estimateTokens(userPrompt) - 50)
         \o "---\n\n" \o userPrompt
  ELSE userPrompt

\* generatePrompt(octokit, repo, event, userPrompt, config?): contents and
\* prFiles are what the API returned, comment is the event's comment, cfg is
\* Absent when the caller passes no configuration
generatePrompt(eventType, contents, prFiles, comment, userPrompt, cfg) ==
  IF eventType = "issuesOpened" THEN userPrompt
  ELSE
    LET contextInfo ==
          IF eventType = "pullRequestReviewCommentCreated"
          THEN "Comment on file: " \o comment.path
                 \o (IF comment.line # 0
                     THEN ", line: " \o ToString(comment.line) ELSE "")
          ELSE ""
        comments ==
          IF Has(cfg) /\ Get(cfg).maxHistoryComments > 0
          THEN LastItems(contents.comments, Get(cfg).maxHistoryComments)
          ELSE contents.comments
        history == genContentsString(contents.content, userPrompt)
                     \o HistoryOf(comments, userPrompt)
        files ==
          IF Has(cfg) /\ Get(cfg).maxChangedFilesInContext > 0
          THEN FirstItems(prFiles, Get(cfg).maxChangedFilesInContext)
          ELSE prFiles
        sections == ContextSections(history, contextInfo, files)
        full == IF sections # "" THEN sections \o "---\n\n" \o userPrompt
                ELSE userPrompt
    IN IF /\ Has(cfg)
          /\ Get(cfg).enableContextTruncation
          /\ Get(cfg).maxContextTokens > 0
          /\ estimateTokens(full) > Get(cfg).maxContextTokens
       THEN TruncatedPrompt(sections, userPrompt, Get(cfg).maxContextTokens)
       ELSE full

---------------------------------------------------------------------------
(* Secrets and the agent clients *)

MaskOrder ==
  <<"githubToken", "anthropicApiKey", "awsAccessKeyId", "awsSecretAccessKey",
    "anthropicBaseUrl", "anthropicBedrockBaseUrl", "openaiApiKey",
    "openaiBaseUrl">>

RECURSIVE MaskFrom(_, _, _)
MaskFrom(text, cfg, i) ==
  IF i > Len(MaskOrder) THEN text
  ELSE IF cfg[MaskOrder[i]] # ""
  THEN MaskFrom(ReplaceAll(text, cfg[MaskOrder[i]], "***"), cfg, i + 1)
  ELSE MaskFrom(text, cfg, i + 1)

\* maskSensitiveInfo(text, config): every configured secret replaced by ***
maskSensitiveInfo(text, cfg) == MaskFrom(text, cfg, 1)

\* runClaudeCode lines 152-161, runCodex lines 114-123: the prompt the
\* client puts on the command line
ClientPrompt(text, cfg) ==
  IF /\ cfg.enableContextTruncation
     /\ cfg.maxContextTokens > 0
     /\ estimateTokens(text) > cfg.maxContextTokens
  THEN truncateToTokenLimit(text, cfg.maxContextTokens)
  ELSE text

---------------------------------------------------------------------------
(* One run of the action: run, checkPermission, runAction, handleResult *)

\* what the run did to the outside, in order: kind is reaction, comment,
\* clone, agent, commit or pull_request; body is the text sent; derived
\* tells that the text comes from the agent's execution
Effect(kind, body, derived) == [kind |-> kind, body |-> body, derived |-> derived]

DisabledText ==
  "Bork! It's Beagle, your furry Code Agent! You disabled me, so I'm not doing anything."
AckText ==
  "Bork! It's Beagle, your furry Code Agent! Don't you worry, we'll get to the bottom of this issue... probably right after a nap. Follow the progress [here](url) anyway..."
EmptyText ==
  "Woof! My nose tells me no files were captured. Are your include/exclude patterns playing hide-and-seek?"
FailureText ==
  "Bork! Drat! Beagle the Code Agent tried, but I seem to be having a bad dog day: "
PullRequestText ==
  "_This pull request was created by the Code Agent and closes #1_.\n\n"
CreatedText == "Created pull request #2 that closes this issue on merge."
ApplyFailedText == "Failed to apply changes to this PR: git push failed"

\* postComment(octokit, repo, event, body): the comment is posted, or every
\* attempt failed and postComment returns without posting
PostComment(body, derived, posted) ==
  IF posted THEN Append(effects, Effect("comment", body, derived)) ELSE effects

\* run lines 20-22: no ProcessedEvent, the run returns
NoEvent ==
  /\ rpc = "done" /\ pc = "main"
  /\ ~result.triggered
  /\ pc' = "done"
  /\ UNCHANGED <<permission, hasPermission, effects, prompt, output, error, failed,
               fetched>>
  /\ UNCHANGED <<diffVars, resolveVars, post>>

\* the ActionContext constructor (ActionContext.ts lines 9-18) of the run
\* that builds an ActionContext: without a ProcessedEvent it throws 'Failed
\* to process event - no valid trigger found', which run reports with
\* core.setFailed
ActionContextThrows ==
  /\ rpc = "done" /\ pc = "main"
  /\ ~result.triggered
  /\ pc' = "done"
  /\ failed' = TRUE
  /\ UNCHANGED <<permission, hasPermission, effects, prompt, output, error,
                 fetched>>
  /\ UNCHANGED <<diffVars, resolveVars, post>>

\* the answers of repos.getCollaboratorPermissionLevel; "error" is a failed call
PermissionAnswers == {"admin", "write", "read", "none", "error"}

\* checkUserPermissionGithub with 'read' accepted as well
PermissionGrantedWithRead(level) == level \in {"admin", "write", "read"}

\* checkUserPermissionGithub lines 46-52: admin or write, false on an error
PermissionGranted(level) == level \in {"admin", "write"}

\* run lines 25-29 with checkPermission: without an actor the check fails at
\* once, else the permission level of the actor decides
CheckPermission ==
  /\ rpc = "done" /\ pc = "main"
  /\ result.triggered
  /\ IF config.actor = ""
     THEN /\ permission' = "noactor"
          /\ hasPermission' = FALSE
     ELSE \E level \in PermissionAnswers :
            /\ permission' = level
            /\ hasPermission' = PermissionGranted(level)
  /\ pc' = IF hasPermission' THEN "react" ELSE "done"
  /\ UNCHANGED <<effects, prompt, output, error, failed, fetched>>
  /\ UNCHANGED <<diffVars, resolveVars, post>>

\* runAction lines 27-33 with addEyeReaction: the reaction is added or the
\* failure is logged
AddEyeReaction ==
  /\ pc = "react"
  /\ \E ok \in BOOLEAN :
       effects' = IF ok THEN Append(effects, Effect("reaction", "eyes", FALSE))
                  ELSE effects
  /\ pc' = IF config.disabled THEN "disabled" ELSE "ack"
  /\ UNCHANGED <<permission, hasPermission, prompt, output, error, failed,
               fetched>>
  /\ UNCHANGED <<diffVars, resolveVars, post>>

\* runAction lines 30-33
PostDisabled ==
  /\ pc = "disabled"
  /\ \E posted \in BOOLEAN : effects' = PostComment(DisabledText, FALSE, posted)
  /\ pc' = "done"
  /\ UNCHANGED <<permission, hasPermission, prompt, output, error, failed,
               fetched>>
  /\ UNCHANGED <<diffVars, resolveVars, post>>

\* runAction line 35
PostAck ==
  /\ pc = "ack"
  /\ \E posted \in BOOLEAN : effects' = PostComment(AckText, FALSE, posted)
  /\ pc' = "clone"
  /\ UNCHANGED <<permission, hasPermission, prompt, output, error, failed,
               fetched>>
  /\ UNCHANGED <<diffVars, resolveVars, post>>

\* runAction line 37 with cloneRepository: an error of the clone leaves
\* runAction and is reported by run
CloneRepository ==
  /\ pc = "clone"
  /\ \E ok \in BOOLEAN :
       IF ok
       THEN /\ effects' = Append(effects, Effect("clone", "", FALSE))
            /\ pc' = "capture"
            /\ failed' = failed
       ELSE /\ effects' = effects
            /\ pc' = "done"
            /\ failed' = TRUE
  /\ UNCHANGED <<permission, hasPermission, prompt, output, error, fetched>>
  /\ UNCHANGED <<diffVars, resolveVars, post>>

\* the file states the captures of a run return
RunFileStates ==
  { EmptyState, [p \in {"a.ts"} |-> "h1"], [p \in {"a.ts"} |-> "h2"] }

\* runAction without the test for no files
AfterCaptureNoTest(state) == "prompt"

\* runAction line 44: originalFileState.size === 0 leads to the warning
AfterCapture(state) == IF state = EmptyState THEN "empty" ELSE "prompt"

\* runAction lines 39-47: the first capture and the test for no files
CaptureFileState ==
  /\ pc = "capture"
  /\ CaptureStep(RunFileStates)
  /\ pc' = AfterCapture(originalState')
  /\ UNCHANGED <<permission, hasPermission, effects, prompt, output, error, failed,
               fetched>>
  /\ UNCHANGED <<resolveVars, post>>

\* runAction lines 45-46
PostEmpty ==
  /\ pc = "empty"
  /\ \E posted \in BOOLEAN : effects' = PostComment(EmptyText, FALSE, posted)
  /\ pc' = "done"
  /\ UNCHANGED <<permission, hasPermission, prompt, output, error, failed,
               fetched>>
  /\ UNCHANGED <<diffVars, resolveVars, post>>

\* what getContentsData returns: the issue or pull request and its comments
RunContents ==
  { [content |-> [body |-> "need structured logs", login |-> "alice"],
     comments |-> << [body |-> "/claude rename the file", login |-> "alice"],
                     [body |-> "On it.\nDone", login |-> "github-actions[bot]"],
                     [body |-> "/claude please fix the typo", login |-> "alice"] >>],
    [content |-> [body |-> "", login |-> "anonymous"], comments |-> <<>>] }

\* what getChangedFiles returns for a pull request
RunPrFiles == { <<>>, <<"src/a.ts", "README.md">> }

IsPullRequestEvent(eventType) ==
  eventType \in {"pullRequestCommentCreated", "pullRequestReviewCommentCreated"}

\* the comment of the event, as generatePrompt reads it
EventComment ==
  IF Has(payload.comment) THEN Get(payload.comment)
  ELSE [body |-> "", path |-> "", line |-> 0]

\* what getContentsData and getChangedFiles returned
Fetched(contents, prFiles) ==
  Some([ok |-> TRUE, contents |-> contents, prFiles |-> prFiles])

\* the prompt generatePrompt builds from the fetched data
PromptOf(f, cfg) ==
  generatePrompt(result.eventType, Get(f).contents, Get(f).prFiles,
                 EventComment, result.userPrompt, cfg)

\* generatePrompt lines 22-34 and 45-107: for an opened issue nothing is
\* fetched; else the data comes from the API (the changed files for the
\* pull request events only) and the prompt is built from it
AssembleStep(cfg, Contents, PrFiles) ==
  IF result.eventType = "issuesOpened"
  THEN /\ fetched' = Absent
       /\ prompt' = result.userPrompt
  ELSE \E contents \in Contents, prFiles \in PrFiles :
         /\ ~IsPullRequestEvent(result.eventType) => prFiles = <<>>
         /\ fetched' = Fetched(contents, prFiles)
         /\ prompt' = PromptOf(fetched', cfg)

\* getContentsData or getChangedFiles has thrown
FetchFailure ==
  Some([ok |-> FALSE,
        contents |-> [content |-> [body |-> "", login |-> ""], comments |-> <<>>],
        prFiles |-> <<>>])

\* a failed fetch that is logged and passed over
AfterFetchFailureSwallowed == [pc |-> "agent", failed |-> FALSE]

\* runAction line 49 is outside the try block: the error of a failed fetch
\* leaves runAction and run reports it with core.setFailed (lines 34-41)
AfterFetchFailure == [pc |-> "done", failed |-> TRUE]

\* runAction line 49 with generatePrompt (called without the configuration):
\* a failed fetch leaves runAction and is reported by run
GeneratePrompt ==
  /\ pc = "prompt"
  /\ \/ /\ result.eventType # "issuesOpened"
        /\ prompt' = ""
        /\ fetched' = FetchFailure
        /\ pc' = AfterFetchFailure.pc
        /\ failed' = (failed \/ AfterFetchFailure.failed)
     \/ /\ AssembleStep(Absent, RunContents, RunPrFiles)
        /\ pc' = "agent"
        /\ failed' = failed
  /\ UNCHANGED <<permission, hasPermission, effects, output, error>>
  /\ UNCHANGED <<diffVars, resolveVars, post>>

\* how the agent process ends and what it wrote (stdout on success and on a
\* bare exit code, stderr otherwise); a process stopped by the timeout has
\* failed without an exit code
AgentTexts == {"All done.", "denied for ghp_T"}
AgentOutcomes ==
  [kind : {"success", "stderr", "exit"}, text : AgentTexts]
  \cup {[kind |-> "timeout", text |-> ""]}

\* result.exitCode as the message shows it
ExitCode(outcome) == IF outcome.kind = "timeout" THEN "undefined" ELSE "1"

ApiKey(type) == IF type = "codex" THEN config.openaiApiKey ELSE config.anthropicApiKey

\* the message of the error runClaudeCode or runCodex throws
AgentError(type, outcome) ==
  IF type = "codex"
  THEN IF ApiKey(type) = ""
       THEN "An OpenAI API key is required to run Codex. Please check your workflow configuration."
       ELSE "Failed to execute Codex command: Codex command failed with exit code "
              \o ExitCode(outcome) \o ". "
              \o (IF outcome.kind = "stderr" THEN "Stderr: " ELSE "Stdout: ")
              \o outcome.text
  ELSE IF ApiKey(type) = ""
       THEN "An Anthropic API key is required to run Claude Code. Please check your workflow configuration."
       ELSE IF outcome.kind = "stderr"
       THEN "Failed to execute Claude Code command: " \o outcome.text
       ELSE "Failed to execute Claude Code command: Claude Code command failed with exit code "
              \o ExitCode(outcome) \o ". Check logs for details."

\* runAction lines 52-66 with runClaudeCode and runCodex: without an API key
\* the client throws before it starts the agent; else the agent gets the
\* client's prompt and its output is masked, or its failure is kept
RunAgent ==
  /\ pc = "agent"
  /\ IF ApiKey(result.type) = ""
     THEN /\ error' = AgentError(result.type, [kind |-> "exit", text |-> ""])
          /\ pc' = "failure"
          /\ UNCHANGED <<effects, output>>
     ELSE \E outcome \in AgentOutcomes :
            /\ effects' = Append(effects,
                 Effect("agent", ClientPrompt(prompt, config), FALSE))
            /\ IF outcome.kind = "success"
               THEN /\ output' = maskSensitiveInfo(outcome.text, config)
                    /\ pc' = "detect"
                    /\ error' = error
               ELSE /\ error' = AgentError(result.type, outcome)
                    /\ pc' = "failure"
                    /\ output' = output
  /\ UNCHANGED <<permission, hasPermission, prompt, failed, fetched>>
  /\ UNCHANGED <<diffVars, resolveVars, post>>

\* runAction going on to the change detection after the failure comment
AfterFailureGoOn == "detect"

\* runAction line 73: the return after the failure comment
AfterFailure == "done"

\* runAction lines 67-74: the failure comment
PostFailure ==
  /\ pc = "failure"
  /\ \E posted \in BOOLEAN :
       effects' = PostComment(FailureText \o error, TRUE, posted)
  /\ pc' = AfterFailure
  /\ UNCHANGED <<permission, hasPermission, prompt, output, error, failed,
               fetched>>
  /\ UNCHANGED <<diffVars, resolveVars, post>>

\* runAction line 76
DetectFileChanges ==
  /\ pc = "detect"
  /\ DetectStep(RunFileStates)
  /\ pc' = "handle"
  /\ UNCHANGED <<permission, hasPermission, effects, prompt, output, error, failed,
               fetched>>
  /\ UNCHANGED <<resolveVars, post>>

\* handleResult with a pull request for every event with changes
HandleKindAlwaysPull(files, eventType) ==
  IF files = {} THEN "comment" ELSE "pull_request"

\* handleResult lines 54, 76 and 85: what follows from the changed files and
\* the event type
HandleKind(files, eventType) ==
  IF files = {} THEN "comment"
  ELSE IF IsPullRequestEvent(eventType) THEN "commit"
  ELSE "pull_request"

\* handleResult lines 95-98: no file changed, the output is the comment
PostOutput ==
  /\ pc = "handle"
  /\ HandleKind(changedFiles, result.eventType) = "comment"
  /\ \E posted \in BOOLEAN : effects' = PostComment(output, TRUE, posted)
  /\ pc' = "done"
  /\ UNCHANGED <<permission, hasPermission, prompt, output, error, failed,
               fetched>>
  /\ UNCHANGED <<diffVars, resolveVars, post>>

\* handleResult lines 54-73: the commit message is generated, or the call
\* fails and the error is reported by run
GenerateCommitMessage ==
  /\ pc = "handle"
  /\ HandleKind(changedFiles, result.eventType) # "comment"
  /\ \E ok \in BOOLEAN :
       /\ pc' = IF ok THEN "apply" ELSE "done"
       /\ failed' = IF ok THEN failed ELSE TRUE
  /\ UNCHANGED <<permission, hasPermission, effects, prompt, output, error,
               fetched>>
  /\ UNCHANGED <<diffVars, resolveVars, post>>

\* handleResult lines 76-84 with createPullRequest: git fails, or the commit
\* is pushed and the pull request fails, or the pull request is created and
\* the comment fails, or all succeed; every failure is reported by run
CreatePullRequest ==
  /\ pc = "apply"
  /\ HandleKind(changedFiles, result.eventType) = "pull_request"
  /\ \E stage \in {"git", "pull", "comment", "ok"} :
       /\ effects' =
            effects
            \o (IF stage # "git" THEN <<Effect("commit", "", FALSE)>> ELSE <<>>)
            \o (IF stage \in {"comment", "ok"}
                THEN <<Effect("pull_request", PullRequestText \o output, TRUE)>>
                ELSE <<>>)
            \o (IF stage = "ok"
                THEN <<Effect("comment", CreatedText, FALSE)>> ELSE <<>>)
       /\ failed' = IF stage = "ok" THEN failed ELSE TRUE
  /\ pc' = "done"
  /\ UNCHANGED <<permission, hasPermission, prompt, output, error, fetched>>
  /\ UNCHANGED <<diffVars, resolveVars, post>>

\* handleResult lines 85-93 with commitChanges: nothing to commit, or the
\* commit is pushed, both followed by the output as comment; or git fails,
\* the failure is posted and reported by run
CommitChanges ==
  /\ pc = "apply"
  /\ HandleKind(changedFiles, result.eventType) = "commit"
  /\ \E stage \in {"nothing", "pushed", "error"}, posted \in BOOLEAN :
       /\ effects' =
            IF stage = "error"
            THEN PostComment(ApplyFailedText, FALSE, posted)
            ELSE (IF stage = "pushed"
                  THEN Append(effects, Effect("commit", "", FALSE))
                  ELSE effects)
                 \o (IF posted THEN <<Effect("comment", output, TRUE)>> ELSE <<>>)
       /\ failed' = IF stage = "error" THEN TRUE ELSE failed
  /\ pc' = "done"
  /\ UNCHANGED <<permission, hasPermission, prompt, output, error, fetched>>
  /\ UNCHANGED <<diffVars, resolveVars, post>>

---------------------------------------------------------------------------
(* captureFileState and the two snapshots of a run *)

RECURSIVE SplitLines(_)
\* the lines of the ignore file, one rule each
SplitLines(text) ==
  LET i == IndexOf(text, "\n") IN
  IF text = "" THEN <<>>
  ELSE IF i = 0 THEN <<text>>
  ELSE <<SubSeq(text, 1, i - 1)>> \o SplitLines(SubSeq(text, i + 1, Len(text)))

\* path.extname(filePath): from the last dot of the base name, '' when the
\* base name has no dot or only a leading one
ExtName(path) ==
  LET slash == LastIndexOf(path, "/")
      base == SubSeq(path, slash + 1, Len(path))
      dot == LastIndexOf(base, ".")
  IN IF dot <= 1 THEN "" ELSE SubSeq(base, dot, Len(base))

\* an optional list that is given and not empty (options.x?.length)
Given(list) == Has(list) /\ Len(Get(list)) > 0

\* captureFileState lines 1211-1232: the rules of the matcher in the order
\* they are added: hard-coded, the caller's exclude patterns, the lines of
\* the ignore file when it exists and can be read
RulesOf(ws, opts) ==
  HardCodedRules
  \o (IF Given(opts.excludePatterns) THEN Get(opts.excludePatterns) ELSE <<>>)
  \o (IF ws[".gitignore"].exists /\ ws[".gitignore"].readable
      THEN SplitLines(ws[".gitignore"].hash) ELSE <<>>)

\* captureFileState lines 1234-1252: the files glob finds for the include
\* patterns (all files without them), never below .git
GlobbedFiles(ws, opts) ==
  LET globPatterns == IF Given(opts.includePatterns)
                      THEN Get(opts.includePatterns) ELSE <<"**/*">>
  IN {p \in FsPaths :
        /\ ws[p].exists
        /\ \E i \in DOMAIN globPatterns : PatternMatches(globPatterns[i], p)
        /\ ~PatternMatches(".git/**", p)}

\* the size limit with the test stats.size >= maxFileSizeBytes
OverSizeAtLimit(size, max) == size >= max

\* captureFileState line 1301: stats.size > maxFileSizeBytes
OverSize(size, max) == size > max

\* the size limit without the option
SizeLimitDefaultOnly(opts) == DEFAULT_MAX_FILE_SIZE

\* captureFileState line 1268: options.maxFileSizeBytes ||
\* DEFAULT_MAX_FILE_SIZE, so that 0 counts as not given
SizeLimit(opts) ==
  IF Has(opts.maxFileSizeBytes) /\ Get(opts.maxFileSizeBytes) # 0
  THEN Get(opts.maxFileSizeBytes) ELSE DEFAULT_MAX_FILE_SIZE

\* captureFileState lines 1254-1265: the excluded extensions
ExcludedType(path, opts) ==
  ToLowerCase(ExtName(path)) \in
    (DEFAULT_EXCLUDED_FILE_TYPES
     \cup (IF Has(opts.excludeFileTypes)
           THEN {Get(opts.excludeFileTypes)[i] : i \in DOMAIN Get(opts.excludeFileTypes)}
           ELSE {}))

\* captureFileState(workspace, options): the hash of every file that glob
\* finds, the matcher lets through, has no excluded extension, can be read
\* and is not over the size limit; the order of processing
\* (prioritizePatterns) does not change the map
captureFileState(ws, opts) ==
  LET filesToProcess ==
        {p \in GlobbedFiles(ws, opts) :
           ~Ignored(RulesOf(ws, opts), p) /\ ~ExcludedType(p, opts)}
      captured ==
        {p \in filesToProcess :
           ws[p].readable /\ ~OverSize(ws[p].size, SizeLimit(opts))}
  IN [p \in captured |-> ws[p].hash]

\* runAction lines 39-42: the before-snapshot of the workspace
CaptureBefore ==
  /\ dpc = "start"
  /\ originalState' = captureFileState(workspace, options)
  /\ before' = workspace
  /\ dpc' = "captured"
  /\ UNCHANGED <<currentState, changedFiles, workspace, options>>
  /\ UNCHANGED <<resolveVars, runVars, post>>

\* the size limit a caller sets
SmallLimit == 5

\* the states of src/a.ts and of the ignore file the agent can leave
SourceFiles ==
  {Missing, Unreadable(SmallLimit), File(1, "h6"),
   File(SmallLimit, "h1"), File(SmallLimit, "h2"), File(SmallLimit + 1, "h3"),
   File(DEFAULT_MAX_FILE_SIZE, "h4"), File(DEFAULT_MAX_FILE_SIZE + 1, "h5")}

IgnoreFile(content) == File(Len(content), content)

IgnoreFiles ==
  {Missing, IgnoreFile("*.tmp"), IgnoreFile("!node_modules/x.js"),
   IgnoreFile("!secrets/key.txt\n!dist/out.js"), IgnoreFile("!.git/config"),
   IgnoreFile("src/**")}

Workspaces ==
  {[p \in FsPaths |->
      IF p = "src/a.ts" THEN a
      ELSE IF p = ".gitignore" THEN g
      ELSE File(4, "h0")] : a \in SourceFiles, g \in IgnoreFiles}

\* runAction lines 44-65: with a before-snapshot that is not empty the
\* agent works on the files
AgentEdits ==
  /\ dpc = "captured"
  /\ DOMAIN originalState # {}
  /\ workspace' \in Workspaces
  /\ dpc' = "edited"
  /\ UNCHANGED <<originalState, currentState, changedFiles, before, options>>
  /\ UNCHANGED <<resolveVars, runVars, post>>

\* detectChanges lines 62-93: the after-snapshot with the same options and
\* the comparison
DetectAfter ==
  /\ dpc = "edited"
  /\ currentState' = captureFileState(workspace, options)
  /\ changedFiles' = DetectChangesOf(originalState, currentState')
  /\ dpc' = "detected"
  /\ UNCHANGED <<originalState, captureVars>>
  /\ UNCHANGED <<resolveVars, runVars, post>>

---------------------------------------------------------------------------
(* postComment: src/github/extractText.ts lines 29-106 *)

\* the default values of the parameters maxRetries and retryDelay
DefaultMaxRetries == 3
DefaultRetryDelay == 1000

\* no call of postComment is under way
NotPosting ==
  [pc |-> "idle", event |-> "none",
   maxRetries |-> DefaultMaxRetries, retryDelay |-> DefaultRetryDelay,
   retries |-> 0, attempts |-> 0, calls |-> 0, waits |-> <<>>,
   error |-> "", posted |-> FALSE]

\* the messages of the errors the API calls end with
ErrorMessages ==
  { "write EPIPE", "read ECONNRESET", "connect ETIMEDOUT",
    "timeout of 5000ms exceeded", "network unreachable",
    "Not Found", "Bad credentials" }

\* lines 84-88 with the test reduced to the timeout
IsRetryableTimeoutOnly(message) == Includes(message, "timeout")

\* lines 84-88: the message names a condition worth a retry
IsRetryableError(message) ==
  \/ Includes(message, "EPIPE")
  \/ Includes(message, "ECONNRESET")
  \/ Includes(message, "ETIMEDOUT")
  \/ Includes(message, "timeout")
  \/ Includes(message, "network")

\* one pass of the loop up to its first API call (lines 39-66): the comment
\* on the issue, the reply to the review comment, or nothing for an event
\* that is neither
PostAttempt ==
  /\ post.pc = "try"
  /\ IF post.event = "none"
     THEN post' = [post EXCEPT !.pc = "returned", !.attempts = @ + 1]
     ELSE \/ post' = [post EXCEPT !.pc = "returned", !.attempts = @ + 1,
                                  !.calls = @ + 1, !.posted = TRUE]
          \/ \E message \in ErrorMessages :
               post' = [post EXCEPT
                          !.attempts = @ + 1, !.calls = @ + 1,
                          !.pc = IF post.event = "pull_request"
                                 THEN "fallback" ELSE "caught",
                          !.error = IF post.event = "pull_request"
                                    THEN post.error ELSE message]
  /\ UNCHANGED <<diffVars, resolveVars, runVars>>

\* lines 67-78: the reply failed for whatever reason, a regular comment on
\* the pull request is tried in the same pass
PostFallback ==
  /\ post.pc = "fallback"
  /\ \/ post' = [post EXCEPT !.pc = "returned", !.calls = @ + 1,
                             !.posted = TRUE]
     \/ \E message \in ErrorMessages :
          post' = [post EXCEPT !.pc = "caught", !.calls = @ + 1,
                               !.error = message]
  /\ UNCHANGED <<diffVars, resolveVars, runVars>>

\* lines 81-104: the error of the pass is caught; a retry after the wait, or
\* the return without a comment
PostCaught ==
  /\ post.pc = "caught"
  /\ IF IsRetryableError(post.error) /\ post.retries < post.maxRetries
     THEN post' = [post EXCEPT
                     !.retries = @ + 1,
                     !.waits = Append(@, post.retryDelay * (post.retries + 1)),
                     !.pc = "try"]
     ELSE post' = [post EXCEPT !.pc = "returned"]
  /\ UNCHANGED <<diffVars, resolveVars, runVars>>

---------------------------------------------------------------------------
(* Specifications *)

CaptureIdle ==
  /\ workspace = EmptyWorkspace
  /\ before = EmptyWorkspace
  /\ options = NoOptions

DiffIdle ==
  /\ originalState = EmptyState
  /\ currentState = EmptyState
  /\ changedFiles = {}
  /\ dpc = "idle"
  /\ CaptureIdle

ResolveIdle ==
  /\ payload = [action |-> "labeled", issue |-> Absent,
                pull_request |-> Absent, comment |-> Absent,
                label |-> Absent]
  /\ config = BaseConfig
  /\ agentEvent = "null"
  /\ result = NoTrigger
  /\ rpc = "idle"
  /\ given = BaseConfig
  /\ first = Absent

RunIdle ==
  /\ pc = "idle"
  /\ permission = "unchecked"
  /\ hasPermission = FALSE
  /\ effects = <<>>
  /\ fetched = Absent
  /\ prompt = ""
  /\ output = ""
  /\ error = ""
  /\ failed = FALSE

\* change detection on its own
InitDiff ==
  /\ originalState = EmptyState
  /\ currentState = EmptyState
  /\ changedFiles = {}
  /\ dpc = "start"
  /\ CaptureIdle
  /\ ResolveIdle
  /\ RunIdle
  /\ post = NotPosting

NextDiff == CaptureOriginal \/ DetectChanges

SpecDiff == InitDiff /\ [][NextDiff]_vars

\* trigger resolution on its own: any payload, any configuration
InitResolve ==
  /\ payload \in Payloads
  /\ config \in Configs
  /\ agentEvent = "null"
  /\ result = NoTrigger
  /\ rpc = "start"
  /\ given = config
  /\ first = Absent
  /\ DiffIdle
  /\ RunIdle
  /\ post = NotPosting

NextResolve == ProcessEvent

SpecResolve == InitResolve /\ [][NextResolve]_vars

\* issue bodies with a configuration block: two that parse to the expected
\* shapes, one that does not parse, two that parse to a number and to an
\* object in place of the list; and a body without a block
BlockBodies ==
  { "need structured logs",
    "^^^yaml config\ntriggerLabels: [bug]\n^^^",
    "^^^yaml config\ntriggerType: codex\n^^^",
    "^^^yaml config\ntriggerLabels: [bug\n^^^",
    "^^^yaml config\ntriggerLabels: 5\n^^^",
    "^^^yaml config\ntriggerLabels: {length: 1}\n^^^" }

BlockPayloads ==
  { [action |-> a, pull_request |-> Absent, label |-> Absent, comment |-> c,
     issue |-> Some([pull_request |-> pr, title |-> "Tune", body |-> b,
                     labels |-> l])] :
      a \in {"opened", "created"}, pr \in BOOLEAN, b \in BlockBodies,
      l \in LabelLists,
      c \in {Absent,
             Some([body |-> "/claude please fix the typo", path |-> "", line |-> 0]),
             Some([body |-> "looks good", path |-> "", line |-> 0])} }

\* two calls of processEvent in a row
InitAgain ==
  /\ payload \in BlockPayloads
  /\ config \in Configs
  /\ agentEvent = "null"
  /\ result = NoTrigger
  /\ rpc = "start"
  /\ given = config
  /\ first = Absent
  /\ DiffIdle
  /\ RunIdle
  /\ post = NotPosting

NextAgain == ProcessEvent \/ ProcessEventAgain

SpecAgain == InitAgain /\ [][NextAgain]_vars

\* the options of the captures: runAction and detectChanges pass the
\* exclude and include patterns of the configuration, other callers a limit
CaptureOptions ==
  [maxFileSizeBytes : {Absent, Some(0), Some(SmallLimit)},
   excludeFileTypes : {Absent},
   excludePatterns : {Absent, Some(<<"secrets/**">>)},
   includePatterns : {Absent, Some(<<"src/**", "node_modules/**">>)}]

\* the two snapshots around the agent's edits
InitCapture ==
  /\ workspace \in Workspaces
  /\ before = EmptyWorkspace
  /\ options \in CaptureOptions
  /\ originalState = EmptyState
  /\ currentState = EmptyState
  /\ changedFiles = {}
  /\ dpc = "start"
  /\ ResolveIdle
  /\ RunIdle
  /\ post = NotPosting

NextCapture == CaptureBefore \/ AgentEdits \/ DetectAfter

SpecCapture == InitCapture /\ [][NextCapture]_vars

\* the payloads of the runs: one of each event type, an unsupported event
\* and a comment without a trigger
RunPayloads ==
  { [label |-> Absent, action |-> "opened", pull_request |-> Absent, comment |-> Absent,
     issue |-> Some([pull_request |-> FALSE, title |-> "Add logging",
                     body |-> "/claude please fix the typo", labels |-> <<>>])],
    [label |-> Absent, action |-> "created", pull_request |-> Absent,
     issue |-> Some([pull_request |-> FALSE, title |-> "Add logging",
                     body |-> "need structured logs", labels |-> <<>>]),
     comment |-> Some([body |-> "/codex add tests\n", path |-> "", line |-> 0])],
    [label |-> Absent, action |-> "created", pull_request |-> Absent,
     issue |-> Some([pull_request |-> TRUE, title |-> "Add logging",
                     body |-> "need structured logs", labels |-> <<>>]),
     comment |-> Some([body |-> "/claude please fix the typo", path |-> "", line |-> 0])],
    [label |-> Absent, action |-> "created", issue |-> Absent,
     pull_request |-> Some([title |-> "Fix bug", body |-> "it crashes",
                            labels |-> <<"Codex">>]),
     comment |-> Some([body |-> "/codex add tests\n", path |-> "src/a.ts", line |-> 12])],
    [label |-> Absent, action |-> "labeled", pull_request |-> Absent, comment |-> Absent,
     issue |-> Some([pull_request |-> FALSE, title |-> "Add logging",
                     body |-> "need structured logs", labels |-> <<"claude">>])],
    [label |-> Absent, action |-> "created", pull_request |-> Absent,
     issue |-> Some([pull_request |-> FALSE, title |-> "Add logging",
                     body |-> "need structured logs", labels |-> <<>>]),
     comment |-> Some([body |-> "looks good", path |-> "", line |-> 0])] }

\* the configurations of the runs: with and without an actor and an
\* Anthropic API key, token limit off, small and large, item limits off and
\* 1, enabled or disabled
RunConfigs ==
  { [BaseConfig EXCEPT !.actor = a, !.anthropicApiKey = k,
                       !.enableContextTruncation = t[1],
                       !.maxContextTokens = t[2],
                       !.maxHistoryComments = n,
                       !.maxChangedFilesInContext = n, !.disabled = d] :
      a \in {"", "alice"}, k \in {"", "sk-ant"},
      t \in {<<FALSE, 0>>, <<TRUE, 2>>, <<TRUE, 1000>>}, n \in {0, 1},
      d \in BOOLEAN }

\* one run of the action from the event to the end
InitRun ==
  /\ payload \in RunPayloads
  /\ config \in RunConfigs
  /\ agentEvent = "null"
  /\ result = NoTrigger
  /\ rpc = "start"
  /\ given = config
  /\ first = Absent
  /\ originalState = EmptyState
  /\ currentState = EmptyState
  /\ changedFiles = {}
  /\ dpc = "start"
  /\ CaptureIdle
  /\ pc = "main"
  /\ permission = "unchecked"
  /\ hasPermission = FALSE
  /\ effects = <<>>
  /\ fetched = Absent
  /\ prompt = ""
  /\ output = ""
  /\ error = ""
  /\ failed = FALSE
  /\ post = NotPosting

NextRun ==
  \/ ProcessEvent
  \/ NoEvent
  \/ ActionContextThrows
  \/ CheckPermission
  \/ AddEyeReaction
  \/ PostDisabled
  \/ PostAck
  \/ CloneRepository
  \/ CaptureFileState
  \/ PostEmpty
  \/ GeneratePrompt
  \/ RunAgent
  \/ PostFailure
  \/ DetectFileChanges
  \/ PostOutput
  \/ GenerateCommitMessage
  \/ CreatePullRequest
  \/ CommitChanges

SpecRun == InitRun /\ [][NextRun]_vars

\* the calls of postComment: the event of an issue or a conversation
\* comment ('issue' in event), of a review comment ('pull_request' in
\* event) or neither; maxRetries and retryDelay as the caller passes them
PostCalls ==
  [pc : {"try"}, event : {"issue", "pull_request", "none"},
   maxRetries : {0, 1, DefaultMaxRetries},
   retryDelay : {0, DefaultRetryDelay},
   retries : {0}, attempts : {0}, calls : {0}, waits : {<<>>},
   error : {""}, posted : {FALSE}]

InitPost ==
  /\ post \in PostCalls
  /\ DiffIdle
  /\ ResolveIdle
  /\ RunIdle

NextPost == PostAttempt \/ PostFallback \/ PostCaught

SpecPost == InitPost /\ [][NextPost]_vars /\ WF_vars(NextPost)

---------------------------------------------------------------------------
(* Properties of the change detection *)

\* C1: the diff is exactly the set of paths that are a key of only one of the
\* two file states, or a key of both with different digests.
C1_DiffExact ==
  dpc = "detected" =>
    changedFiles =
      {p \in Paths :
         \/ (p \in DOMAIN originalState) # (p \in DOMAIN currentState)
         \/ /\ p \in DOMAIN originalState
            /\ p \in DOMAIN currentState
            /\ originalState[p] # currentState[p]}

\* the example of the diff: one path unchanged, one deleted, one added
C1_Witness ==
  /\ dpc = "detected"
  /\ originalState = [p \in {"a.ts", "b.ts"} |-> IF p = "a.ts" THEN "h1" ELSE "h2"]
  /\ currentState = [p \in {"a.ts", "c.ts"} |-> IF p = "a.ts" THEN "h1" ELSE "h2"]
  /\ changedFiles = {"b.ts", "c.ts"}

---------------------------------------------------------------------------
(* Properties of the classification and the trigger resolution *)

\* the four predicates of the classifier, in their order
Rule(i, p) ==
  CASE i = 1 -> p.action = "opened" /\ p.issue # Absent /\ ~p.issue[1].pull_request
    [] i = 2 -> /\ p.action = "created" /\ p.issue # Absent
                /\ ~p.issue[1].pull_request /\ p.comment # Absent
    [] i = 3 -> /\ p.action = "created" /\ p.issue # Absent
                /\ p.issue[1].pull_request /\ p.comment # Absent
    [] i = 4 -> /\ p.action = "created" /\ p.pull_request # Absent
                /\ p.comment # Absent /\ p.comment[1].path # ""

Variant ==
  <<"issuesOpened", "issueCommentCreated", "pullRequestCommentCreated",
    "pullRequestReviewCommentCreated">>

\* C2: the classification is the variant of the first rule the payload
\* satisfies, and null (unsupported) exactly when it satisfies none.
C2_FirstMatch ==
  rpc = "done" =>
    LET matching == {i \in 1..4 : Rule(i, payload)} IN
    IF matching = {} THEN agentEvent = "null"
    ELSE \E i \in matching :
           /\ \A j \in matching : i <= j
           /\ agentEvent = Variant[i]

\* a payload that satisfies the third and the fourth rule gets the third
C2_Witness ==
  /\ rpc = "done"
  /\ Rule(3, payload) /\ Rule(4, payload)
  /\ agentEvent = "pullRequestCommentCreated"

\* the triggering text of a classified event
TriggerText ==
  IF agentEvent = "issuesOpened" THEN payload.issue[1].body
  ELSE payload.comment[1].body

\* the text after a prefix of n characters
After(text, n) == SubSeq(text, n + 1, Len(text))

HasClaudeCommand == Len(TriggerText) >= 7 /\ SubSeq(TriggerText, 1, 7) = "/claude"
HasCodexCommand == Len(TriggerText) >= 6 /\ SubSeq(TriggerText, 1, 6) = "/codex"

CommandAgent == IF HasClaudeCommand THEN "claude" ELSE "codex"
CommandRest ==
  IF HasClaudeCommand THEN Trim(After(TriggerText, 7)) ELSE Trim(After(TriggerText, 6))

\* C3 as stated: a text that starts with a command prefix always gives that
\* agent with the trimmed rest of the text as instruction.
C3_CommandAlwaysTriggers ==
  (rpc = "done" /\ agentEvent # "null" /\ (HasClaudeCommand \/ HasCodexCommand)) =>
    /\ result.triggered
    /\ result.type = CommandAgent
    /\ result.userPrompt = CommandRest

\* C3 amended: a text that starts with a command prefix gives that agent with
\* the trimmed rest of the text as instruction when that rest is not empty,
\* and no trigger when it is empty.
C3_Command ==
  (rpc = "done" /\ agentEvent # "null" /\ (HasClaudeCommand \/ HasCodexCommand)) =>
    IF CommandRest # ""
    THEN /\ result.triggered
         /\ result.type = CommandAgent
         /\ result.userPrompt = CommandRest
    ELSE ~result.triggered

\* the end-to-end example: an issue comment '/claude please fix the typo'
C3_Witness ==
  /\ rpc = "done"
  /\ agentEvent = "issueCommentCreated"
  /\ payload.comment[1].body = "/claude please fix the typo"
  /\ payload.issue[1].labels = <<>>
  /\ result = [triggered |-> TRUE, type |-> "claude",
               eventType |-> "issueCommentCreated",
               userPrompt |-> "please fix the typo"]

\* the labels of the event: the issue's, else the pull request's
EventLabels ==
  IF payload.issue # Absent THEN payload.issue[1].labels
  ELSE IF payload.pull_request # Absent THEN payload.pull_request[1].labels
  ELSE <<>>

LabelOccurs(name) ==
  \E i \in 1..Len(EventLabels) : ToLowerCase(EventLabels[i]) = name

NoCommand == ~HasClaudeCommand /\ ~HasCodexCommand

\* the configured custom trigger labels, none when the list is unset
CustomLabels ==
  IF config.triggerLabels = Absent THEN {}
  ELSE {config.triggerLabels[1][k] : k \in 1..Len(config.triggerLabels[1])}

\* C4: without a command, an event with exactly one reserved agent name among
\* its labels selects that agent, for every configuration and every position
\* of the label; the default agent of a custom trigger label is selected only
\* when no label is a reserved agent name.
C4_ReservedLabelSelects ==
  (rpc = "done" /\ agentEvent # "null" /\ NoCommand) =>
    /\ (LabelOccurs("claude") /\ ~LabelOccurs("codex")) =>
         (result.triggered /\ result.type = "claude")
    /\ (LabelOccurs("codex") /\ ~LabelOccurs("claude")) =>
         (result.triggered /\ result.type = "codex")

\* a classified event without a command that a label triggered
LabelTriggered ==
  rpc = "done" /\ agentEvent # "null" /\ NoCommand /\ result.triggered

IssueTitle == IF payload.issue # Absent THEN payload.issue[1].title ELSE ""
PullTitle ==
  IF payload.pull_request # Absent THEN payload.pull_request[1].title ELSE ""

GenericPrompt == "Please review the changes and provide feedback."

\* C5 as stated: the instruction of a label trigger is 'Review and address
\* this issue: {title}\n\n{body}' from the issue or the pull request, and
\* the generic instruction only when neither has a title.
C5_IssueTemplateAlways ==
  LabelTriggered =>
    result.userPrompt =
      IF IssueTitle # ""
      THEN "Review and address this issue: " \o IssueTitle \o "\n\n"
             \o payload.issue[1].body
      ELSE IF PullTitle # ""
      THEN "Review and address this issue: " \o PullTitle \o "\n\n"
             \o payload.pull_request[1].body
      ELSE GenericPrompt

\* C5 amended: the instruction of a label trigger is 'Review and address this
\* issue: {title}\n\n{body}' when the issue has a title, 'Review this pull
\* request: {title}\n\n{body}' when only the pull request has one, and the
\* generic instruction only when neither has a title.
C5_DefaultInstruction ==
  LabelTriggered =>
    /\ IssueTitle # "" =>
         result.userPrompt =
           "Review and address this issue: " \o IssueTitle \o "\n\n"
             \o payload.issue[1].body
    /\ (IssueTitle = "" /\ PullTitle # "") =>
         result.userPrompt =
           "Review this pull request: " \o PullTitle \o "\n\n"
             \o payload.pull_request[1].body
    /\ (result.userPrompt = GenericPrompt) <=> (IssueTitle = "" /\ PullTitle = "")

\* the example: label 'codex' on the issue 'Add logging'
C5_Witness ==
  /\ LabelTriggered
  /\ agentEvent = "issuesOpened"
  /\ payload.issue[1].labels = <<"codex">>
  /\ payload.issue[1].title = "Add logging"
  /\ result.type = "codex"
  /\ result.userPrompt =
       "Review and address this issue: Add logging\n\nneed structured logs"

\* some label of the event would select an agent under the configuration
LabelWouldSelect ==
  /\ CustomLabels # {}
  /\ \E i \in 1..Len(EventLabels) :
       ToLowerCase(EventLabels[i]) \in {"claude", "codex"} \cup CustomLabels

\* C6: when the text starts with a command prefix the labels are not
\* consulted: the agent is the command's whatever the labels are, and an
\* empty rest of the text gives no trigger even when a label would select
\* an agent.
C6_CommandIgnoresLabels ==
  (rpc = "done" /\ agentEvent # "null" /\ ~NoCommand /\ LabelWouldSelect) =>
    /\ result.triggered => result.type = CommandAgent
    /\ result.triggered => result.userPrompt = CommandRest
    /\ CommandRest = "" => result = NoTrigger

\* '/claude' alone on an event that carries the label 'codex'
C6_Witness ==
  /\ rpc = "done" /\ agentEvent = "issueCommentCreated"
  /\ payload.comment[1].body = "/claude  "
  /\ LabelOccurs("codex")
  /\ CustomLabels # {}
  /\ result = NoTrigger

\* an agent was selected: by a command, or by a label when trigger labels
\* are configured
AgentSelected ==
  /\ agentEvent # "null"
  /\ \/ ~NoCommand
     \/ LabelWouldSelect

BotReply ==
  "I looked at the logger module.\nIt writes plain text lines.\nA structured format needs a schema.\nI added a JSON formatter.\nThe tests cover the formatter.\nThe README has a new section.\nNothing else was touched.\nReview the pull request."

HistoryItems ==
  { [body |-> "/claude please fix the typo", login |-> "alice"],
    [body |-> "  /claude   please fix the typo\n", login |-> "github-actions[bot]"],
    [body |-> "/codex add tests", login |-> "alice"],
    [body |-> "/codex add tests", login |-> "github-actions[bot]"],
    [body |-> "/claude rename the file", login |-> "bob"],
    [body |-> BotReply, login |-> "github-actions[bot]"],
    [body |-> "looks good", login |-> "bob"],
    [body |-> " \n", login |-> "bob"] }

\* the number of comments on the conversation
MaxComments == 2

PromptContents ==
  [content : { [body |-> "need structured logs", login |-> "alice"],
               [body |-> BotReply, login |-> "github-actions[bot]"] },
   comments : UNION { [1..n -> HistoryItems] : n \in 0..MaxComments }]

PromptPrFiles == { <<>>, <<"src/a.ts", "README.md">> }

\* the limits of the configuration: none, a limit below the instruction, a
\* limit that leaves room for some context, a limit above every prompt
PromptConfigs ==
  { [BaseConfig EXCEPT !.enableContextTruncation = t,
                       !.maxContextTokens = m,
                       !.maxHistoryComments = h,
                       !.maxChangedFilesInContext = f] :
      t \in BOOLEAN, m \in {0, 1, 70, 1000}, h \in {0, 1}, f \in {0, 1} }

InitPrompt ==
  /\ payload \in { p \in RunPayloads : processEvent(p, BaseConfig).result.triggered }
  /\ config \in PromptConfigs
  /\ agentEvent = processEvent(payload, BaseConfig).agentEvent
  /\ result = processEvent(payload, BaseConfig).result
  /\ rpc = "done"
  /\ given = config
  /\ first = Absent
  /\ DiffIdle
  /\ pc = "prompt"
  /\ permission = "unchecked"
  /\ hasPermission = FALSE
  /\ effects = <<>>
  /\ fetched = Absent
  /\ prompt = ""
  /\ output = ""
  /\ error = ""
  /\ failed = FALSE
  /\ post = NotPosting

\* generatePrompt(octokit, repo, event, userPrompt, config)
AssemblePrompt ==
  /\ pc = "prompt"
  /\ AssembleStep(Some(config), PromptContents, PromptPrFiles)
  /\ pc' = "assembled"
  /\ UNCHANGED <<permission, hasPermission, effects, output, error, failed>>
  /\ UNCHANGED <<diffVars, resolveVars, post>>

NextPrompt == AssemblePrompt

SpecPrompt == InitPrompt /\ [][NextPrompt]_vars

---------------------------------------------------------------------------
(* Claims about one run *)

\* the kinds of effect a run has on the outside
EffectKinds == {"reaction", "comment", "clone", "agent", "commit", "pull_request"}

\* the run did something of the given kind
Performed(kind) == \E i \in DOMAIN effects : effects[i].kind = kind

\* C8: no reaction, comment, clone, agent invocation, commit or pull
\* request is performed unless the permission check found 'write' or
\* 'admin' for the actor; a missing actor, an error of the check or a lower
\* permission is a denial and ends the run with nothing performed.
C8_NoEffectWithoutPermission ==
  /\ \A i \in DOMAIN effects : effects[i].kind \in EffectKinds
  /\ effects # <<>> => hasPermission /\ permission \in {"admin", "write"}
  /\ pc \notin {"main", "idle", "done"} =>
       hasPermission /\ permission \in {"admin", "write"}
  /\ permission \in {"noactor", "error", "read", "none"} =>
       /\ ~hasPermission
       /\ pc = "done"
       /\ effects = <<>>

\* a permitted run that went through to the pull request
C8_Witness ==
  /\ permission = "write" /\ hasPermission
  /\ Performed("reaction") /\ Performed("clone") /\ Performed("agent")
  /\ Performed("commit") /\ Performed("pull_request") /\ Performed("comment")

\* the secrets of the configuration named by the masking promise
SecretKeys ==
  {"githubToken", "anthropicApiKey", "awsAccessKeyId", "awsSecretAccessKey",
   "openaiApiKey"}

\* the text holds a configured, non-empty secret
Leaks(text) ==
  \E k \in SecretKeys : config[k] # "" /\ Includes(text, config[k])

\* C9: every text derived from the agent's execution that is posted (the
\* result comment, the pull-request body, the failure message) holds no
\* configured non-empty secret.
C9_DerivedTextsMasked ==
  \A i \in DOMAIN effects : effects[i].derived => ~Leaks(effects[i].body)

\* C10: the prompt passed to the agent process holds the complete
\* instruction, whatever maxContextTokens and enableContextTruncation are.
C10_InstructionIntact ==
  \A i \in DOMAIN effects :
    effects[i].kind = "agent" => Includes(effects[i].body, result.userPrompt)

---------------------------------------------------------------------------
(* Claims about the prompt assembly *)

\* String.prototype.endsWith
EndsWith(s, pat) ==
  Len(s) >= Len(pat) /\ SubSeq(s, Len(s) - Len(pat) + 1, Len(s)) = pat

\* the prompt before the token limit is applied (generatePrompt lines 63-78)
FullPrompt ==
  PromptOf(fetched, Some([config EXCEPT !.enableContextTruncation = FALSE]))

\* the token limit applies: truncation is enabled and the full prompt is
\* estimated above maxContextTokens
OverLimit ==
  /\ Has(fetched)
  /\ config.enableContextTruncation
  /\ config.maxContextTokens > 0
  /\ estimateTokens(FullPrompt) > config.maxContextTokens

\* C11: when truncation is enabled and the full prompt is estimated above
\* maxContextTokens, the assembled prompt still ends with the complete
\* instruction, also for a limit below the instruction's own size.
C11_InstructionKept ==
  (pc = "assembled" /\ OverLimit) => EndsWith(prompt, result.userPrompt)

\* a limit below the instruction's size: all context is cut, the instruction
\* stays
C11_Witness ==
  /\ pc = "assembled" /\ OverLimit
  /\ config.maxContextTokens < estimateTokens(result.userPrompt)
  /\ prompt # FullPrompt
  /\ EndsWith(prompt, result.userPrompt)

\* a limit that leaves room: the context is cut with the marker
C11_WitnessMarker ==
  /\ pc = "assembled" /\ OverLimit
  /\ Includes(prompt, TruncationMarker)
  /\ EndsWith(prompt, result.userPrompt)

\* the body of a history item after trimming and stripping the command
\* prefix of either agent
StrippedBody(item) ==
  LET body == Trim(item.body) IN
  IF StartsWith(body, "/claude") THEN Trim(SubSeq(body, 8, Len(body)))
  ELSE IF StartsWith(body, "/codex") THEN Trim(SubSeq(body, 7, Len(body)))
  ELSE body

\* the history items generatePrompt formats: the content and the comments
\* left by maxHistoryComments (generatePrompt lines 45-55)
FormattedItems ==
  LET all == Get(fetched).contents.comments
      kept == IF config.maxHistoryComments > 0
              THEN LastItems(all, config.maxHistoryComments) ELSE all
  IN {Get(fetched).contents.content} \cup {kept[i] : i \in DOMAIN kept}

\* C12: a history item whose body, trimmed and stripped of the command
\* prefix, equals the current instruction contributes nothing to the
\* assembled prompt, for every agent kind and every author.
C12_DuplicateExcluded ==
  (pc = "assembled" /\ Has(fetched)) =>
    \A item \in FormattedItems :
      StrippedBody(item) = result.userPrompt =>
        genContentsString(item, result.userPrompt) = ""

---------------------------------------------------------------------------
(* Claims about the end of a run *)

\* how often the run did something of the given kind
Count(kind) == Cardinality({i \in DOMAIN effects : effects[i].kind = kind})

\* the failure messages posted to the conversation
FailureMessages ==
  {i \in DOMAIN effects :
     effects[i].kind = "comment" /\ StartsWith(effects[i].body, FailureText)}

\* the agent client has thrown
AgentFailed == error # ""

\* after a failed agent: no second invocation, no change detection, commit,
\* pull request or result comment
EndsAfterFailure ==
  /\ Count("agent") <= 1
  /\ pc \in {"failure", "done"}
  /\ dpc = "captured" /\ changedFiles = {}
  /\ Count("commit") = 0 /\ Count("pull_request") = 0
  /\ \A i \in DOMAIN effects : effects[i].derived => i \in FailureMessages
  /\ ~failed

\* C13 as stated: after a timeout or failure of the agent exactly one
\* failure message is posted and the run ends there.
C13_ExactlyOneFailureMessage ==
  AgentFailed =>
    /\ EndsAfterFailure
    /\ pc = "done" => Cardinality(FailureMessages) = 1

\* C13: after a timeout or failure of the agent the agent is not invoked
\* again, postComment is called once with the failure message, so at most
\* one failure message is posted (none when the platform rejects the
\* comment), and the run ends without change detection, commit, pull
\* request or result comment.
C13_FailureEndsRun ==
  AgentFailed =>
    /\ EndsAfterFailure
    /\ Cardinality(FailureMessages) <= 1
    /\ pc = "failure" => FailureMessages = {}
    /\ \A i \in FailureMessages : effects[i].body = FailureText \o error

\* the agent timed out and the failure message is on the conversation
C13_Witness ==
  /\ AgentFailed /\ pc = "done"
  /\ Includes(error, "exit code undefined")
  /\ Count("agent") = 1
  /\ Cardinality(FailureMessages) = 1

\* the warnings about an empty snapshot posted to the conversation
EmptyWarnings ==
  {i \in DOMAIN effects :
     effects[i].kind = "comment" /\ effects[i].body = EmptyText}

\* the first capture found no file
EmptySnapshot == dpc # "start" /\ originalState = EmptyState

\* after an empty snapshot: no context is fetched, the agent is not invoked,
\* no second capture, no diff, commit or pull request
StopsAfterEmptySnapshot ==
  /\ pc \in {"empty", "done"}
  /\ fetched = Absent /\ prompt = ""
  /\ Count("agent") = 0
  /\ dpc = "captured" /\ currentState = EmptyState /\ changedFiles = {}
  /\ Count("commit") = 0 /\ Count("pull_request") = 0
  /\ \A i \in DOMAIN effects : ~effects[i].derived
  /\ ~failed

\* C14 as stated: with an empty before-snapshot the run posts the warning
\* and stops there.
C14_WarningPosted ==
  EmptySnapshot =>
    /\ StopsAfterEmptySnapshot
    /\ pc = "done" => Cardinality(EmptyWarnings) = 1

\* C14: with an empty before-snapshot postComment is called once with the
\* warning (posted when the platform accepts the comment) and the run stops
\* there: no context is fetched, the agent is never invoked, and no
\* after-snapshot, diff, commit or pull request follows.
C14_EmptySnapshotStops ==
  /\ EmptySnapshot =>
       /\ StopsAfterEmptySnapshot
       /\ Cardinality(EmptyWarnings) <= 1
       /\ pc = "empty" => EmptyWarnings = {}
  /\ EmptyWarnings # {} => EmptySnapshot /\ pc = "done"

\* the warning is the last thing the run did
C14_Witness ==
  /\ EmptySnapshot /\ pc = "done"
  /\ Performed("clone")
  /\ effects[Len(effects)].body = EmptyText
  /\ Cardinality(EmptyWarnings) = 1

\* trigger resolution ended without a ProcessedEvent: the event is
\* unsupported or nothing triggered
NoProcessedEvent == rpc = "done" /\ ~result.triggered

\* C15: for an unsupported event or without a trigger the run ends
\* silently: no reaction, no comment, no clone, no agent, and no error is
\* raised or reported for the run.
C15_SilentEnd ==
  NoProcessedEvent =>
    /\ effects = <<>>
    /\ permission = "unchecked"
    /\ pc \in {"main", "done"}
    /\ ~failed

\* a call of the platform needed for the context has failed
FetchFailed == Has(fetched) /\ ~Get(fetched).ok

\* C16: when a platform call needed for the context assembly fails, the
\* failure is not swallowed: the agent is never invoked, with a partial
\* prompt or otherwise, and the run ends reported as failed.
C16_FetchFailureFailsRun ==
  /\ FetchFailed =>
       /\ pc = "done" /\ failed
       /\ prompt = ""
       /\ Count("agent") = 0
       /\ dpc = "captured" /\ changedFiles = {}
       /\ Count("commit") = 0 /\ Count("pull_request") = 0
       /\ \A i \in DOMAIN effects : ~effects[i].derived
  /\ (Count("agent") > 0 /\ result.eventType # "issuesOpened") =>
       /\ Has(fetched) /\ Get(fetched).ok
       /\ prompt = PromptOf(fetched, Absent)

\* the run got as far as the fetch and failed there
C16_Witness ==
  /\ FetchFailed
  /\ pc = "done" /\ failed
  /\ Performed("clone") /\ ~Performed("agent")
  /\ originalState # EmptyState

\* the agent's output posted as a plain comment
OutputComments ==
  {i \in DOMAIN effects :
     /\ effects[i].kind = "comment" /\ effects[i].derived
     /\ effects[i].body = output}

\* the agent succeeded and the changes were detected
Handled == dpc = "detected" /\ error = ""

\* what holds of the outcome whatever the ChangeSet is: at most one commit,
\* pull request and output comment, a pull request only after its commit
\* and only for an issue event
OutcomeShape ==
  /\ Count("commit") <= 1 /\ Count("pull_request") <= 1
  /\ Cardinality(OutputComments) <= 1
  /\ Count("pull_request") = 1 =>
       Count("commit") = 1 /\ ~IsPullRequestEvent(result.eventType)
  /\ (Count("commit") = 1 /\ ~IsPullRequestEvent(result.eventType)) =>
       OutputComments = {}

\* C17 as stated: with an empty ChangeSet no commit and no pull request,
\* with a non-empty ChangeSet never the plain output comment.
C17_OneKindOfOutcome ==
  Handled =>
    /\ OutcomeShape
    /\ changedFiles = {} => Count("commit") = 0 /\ Count("pull_request") = 0
    /\ changedFiles # {} => OutputComments = {}

\* C17: an empty ChangeSet leads to the output comment alone, without
\* commit or pull request; a non-empty ChangeSet leads for an issue event to
\* a commit and a pull request without output comment, and for a pull
\* request event to a commit on its branch (none when git finds nothing to
\* commit) followed by the output as a comment, never to a pull request.
C17_Outcome ==
  Handled =>
    /\ OutcomeShape
    /\ changedFiles = {} => Count("commit") = 0 /\ Count("pull_request") = 0
    /\ (changedFiles # {} /\ ~IsPullRequestEvent(result.eventType)) =>
         OutputComments = {}
    /\ (changedFiles # {} /\ IsPullRequestEvent(result.eventType)) =>
         Count("pull_request") = 0
    /\ (pc # "done" /\ changedFiles # {}) =>
         Count("commit") = 0 /\ OutputComments = {}

\* a pull request event with changes: the commit and then the output comment
C17_Witness ==
  /\ Handled /\ pc = "done"
  /\ changedFiles # {} /\ IsPullRequestEvent(result.eventType)
  /\ Count("commit") = 1
  /\ Cardinality(OutputComments) = 1
  /\ effects[Len(effects)].body = output

\* an issue event with changes: the pull request with the output in its body
C17_WitnessPull ==
  /\ Handled /\ pc = "done"
  /\ changedFiles # {} /\ ~IsPullRequestEvent(result.eventType)
  /\ Count("pull_request") = 1 /\ OutputComments = {}

---------------------------------------------------------------------------
(* Claims about the snapshots *)

\* the limit in force: the configured number of bytes when it is at least
\* 1, 1 MiB otherwise
LimitInForce ==
  IF Has(options.maxFileSizeBytes) /\ Get(options.maxFileSizeBytes) >= 1
  THEN Get(options.maxFileSizeBytes) ELSE 1048576

\* the file is over the size limit in the workspace
TooBig(ws, p) == ws[p].exists /\ ws[p].size > LimitInForce

BeforeTaken == dpc \in {"captured", "edited", "detected"}
AfterTaken == dpc = "detected"

\* a file over the limit when a snapshot is taken is absent from that
\* snapshot
AbsentWhenTooBig ==
  /\ BeforeTaken =>
       \A p \in FsPaths : TooBig(before, p) => p \notin DOMAIN originalState
  /\ AfterTaken =>
       \A p \in FsPaths : TooBig(workspace, p) => p \notin DOMAIN currentState

StatedLimit ==
  IF Has(options.maxFileSizeBytes) THEN Get(options.maxFileSizeBytes)
  ELSE 1048576

\* the file passes the filters other than the size: glob finds it, no rule
\* of the matcher and no excluded extension holds it back, it can be read
PassesOtherFilters(ws, p) ==
  /\ p \in GlobbedFiles(ws, options)
  /\ ~Ignored(RulesOf(ws, options), p)
  /\ ~ExcludedType(p, options)
  /\ ws[p].readable

\* a file of exactly limit bytes is in the snapshot, one of limit + 1 is not
BoundaryAt(limit) ==
  BeforeTaken =>
    \A p \in FsPaths :
      /\ (PassesOtherFilters(before, p) /\ before[p].size = limit) =>
           p \in DOMAIN originalState
      /\ (before[p].exists /\ before[p].size = limit + 1) =>
           p \notin DOMAIN originalState

\* C19 as stated: with the limit set to N bytes a file of N bytes is in, a
\* file of N+1 bytes is out; without a limit N is 1 MiB.
C19_BoundaryAtStatedLimit == BoundaryAt(StatedLimit)

\* C19: with the limit set to N >= 1 bytes a readable file of exactly N
\* bytes that passes the other filters is in the snapshot and a file of N+1
\* bytes is not; without a limit, and with a limit of 0, N is 1 MiB.
C19_Boundary == BoundaryAt(LimitInForce)

\* a file of exactly 1 MiB is in the snapshot taken without a limit
C19_Witness ==
  /\ BeforeTaken
  /\ options.maxFileSizeBytes = Absent
  /\ before["src/a.ts"].size = 1048576
  /\ "src/a.ts" \in DOMAIN originalState

\* a file one byte over the configured limit is not in the snapshot
C19_WitnessOver ==
  /\ BeforeTaken
  /\ options.maxFileSizeBytes = Some(SmallLimit)
  /\ before["src/a.ts"].size = SmallLimit + 1
  /\ PassesOtherFilters(before, "src/a.ts")
  /\ "src/a.ts" \notin DOMAIN originalState

\* the path is matched by a hard-coded exclusion or by an exclude pattern
\* of the caller
ExcludedByEarlierRule(p) ==
  \/ \E i \in DOMAIN HardCodedRules : PatternMatches(HardCodedRules[i], p)
  \/ /\ Given(options.excludePatterns)
     /\ \E i \in DOMAIN Get(options.excludePatterns) :
          PatternMatches(Get(options.excludePatterns)[i], p)

\* C20: a path matched by a hard-coded exclusion or by an exclude pattern
\* of the caller is absent from the snapshot for every content of the
\* ignore file.
C20_NeverReincluded ==
  /\ BeforeTaken =>
       \A p \in FsPaths :
         ExcludedByEarlierRule(p) => p \notin DOMAIN originalState
  /\ AfterTaken =>
       \A p \in FsPaths :
         ExcludedByEarlierRule(p) => p \notin DOMAIN currentState

---------------------------------------------------------------------------
(* Claims about label events *)

\* the list holds the label
InList(list, label) == \E k \in 1..Len(list) : list[k] = label

\* the agent the added label stands for: the reserved names, then the
\* configured trigger labels; "" when the label selects no agent
AgentOfLabel(name, cfg) ==
  IF name = "claude" THEN "claude"
  ELSE IF name = "codex" THEN "codex"
  ELSE IF Has(cfg.triggerLabels) /\ InList(Get(cfg.triggerLabels), name)
  THEN (IF cfg.triggerType # "" THEN cfg.triggerType ELSE "claude")
  ELSE ""

\* C21: a label event whose added label is a reserved agent name or a
\* configured trigger label yields a trigger decision for that agent.
C21_LabelEventTriggers ==
  (/\ rpc = "done"
   /\ payload.action = "labeled"
   /\ Has(payload.label)
   /\ AgentOfLabel(ToLowerCase(Get(payload.label).name), config) # "")
  => (/\ result.triggered
      /\ result.type = AgentOfLabel(ToLowerCase(Get(payload.label).name), config))

---------------------------------------------------------------------------
(* Claims about configuration overrides *)

\* the bodies whose block does not parse or holds a value of another shape
\* than the list of labels
MalformedBodies ==
  { "^^^yaml config\ntriggerLabels: [bug\n^^^",
    "^^^yaml config\ntriggerLabels: 5\n^^^",
    "^^^yaml config\ntriggerLabels: {length: 1}\n^^^" }

\* the body without its configuration block
RemoveBlock(body) ==
  LET i == IndexOf(body, YamlOpen) IN
  IF i = 0 THEN body
  ELSE LET rest == SubSeq(body, i + Len(YamlOpen), Len(body))
           j == IndexOf(rest, Fence)
       IN IF j = 0 THEN body
          ELSE SubSeq(body, 1, i - 1)
                 \o SubSeq(rest, j + Len(Fence), Len(rest))

\* the payload with the block taken out of the issue body
WithoutBlock(p) ==
  [p EXCEPT !.issue =
     Some([Get(p.issue) EXCEPT !.body = RemoveBlock(Get(p.issue).body)])]

\* the first call on a payload with a malformed block has ended
MalformedResolved ==
  /\ first = Absent
  /\ rpc \in {"done", "threw"}
  /\ Has(payload.issue)
  /\ Get(payload.issue).body \in MalformedBodies

\* C22: for a body whose override block cannot be parsed or holds values of
\* an unexpected shape, resolve raises no error, leaves the configuration as
\* it was and returns the decision (agent or no trigger) it returns for the
\* same event without the block.
C22_MalformedBlockIgnored ==
  MalformedResolved =>
    /\ rpc # "threw"
    /\ config = given
    /\ LET plain == processEvent(WithoutBlock(payload), given).result IN
         /\ result.triggered = plain.triggered
         /\ result.type = plain.type

\* the call on an object in place of the label list raises
C22_Raised ==
  /\ rpc = "threw"
  /\ first = Absent
  /\ config.triggerLabels = OddValue("object", 1)

\* C26: two calls of resolve in a row on the same payload and the same
\* configuration object end the same way: the same agent and instruction,
\* or no trigger both times, or an error both times, also when the first
\* call has written the body's overrides into the configuration.
C26_SameResultTwice ==
  Has(first) =>
    /\ result = Get(first).result
    /\ (rpc = "threw") = Get(first).threw

\* the first call wrote the trigger labels of the body into a configuration
\* without any, and both calls selected the agent by the label
C26_Witness ==
  /\ Has(first)
  /\ Get(payload.issue).body = "^^^yaml config\ntriggerLabels: [bug]\n^^^"
  /\ given.triggerLabels = Absent
  /\ config.triggerLabels = Some(<<"bug">>)
  /\ result.triggered
  /\ Get(first).result.triggered

---------------------------------------------------------------------------
(* Claims about the history section *)

Automation == "github-actions[bot]"

\* the item has a body, is not written by the automation and does not start
\* with a command prefix
HumanRemark(item) ==
  /\ Trim(item.body) # ""
  /\ Trim(item.login) # Automation
  /\ ~StartsWith(Trim(item.body), "/claude")
  /\ ~StartsWith(Trim(item.body), "/codex")

\* the prompt is assembled from fetched items and not cut by the token limit
AssembledWhole == pc = "assembled" /\ Has(fetched) /\ ~OverLimit

\* the part of the prompt before the separator and the instruction
ContextPart ==
  IF EndsWith(prompt, "---\n\n" \o result.userPrompt)
  THEN SubSeq(prompt, 1, Len(prompt) - Len("---\n\n" \o result.userPrompt))
  ELSE ""

\* C23 as stated: every non-empty item that is not the automation's and
\* starts with no command prefix is in the history section verbatim.
C23_HumanItemsVerbatim ==
  AssembledWhole =>
    \A item \in FormattedItems :
      HumanRemark(item) =>
        /\ StartsWith(ContextPart, "[History]\n")
        /\ Includes(ContextPart, item.body)

\* C23: an item that is not the automation's and does not start with
\* '/claude' contributes nothing to the prompt; an item of the automation
\* that does not start with '/claude' is in the history section with every
\* line prefixed by the quote marker; an item that starts with '/claude' is
\* there with the prefix stripped unless the rest is the instruction.
C23_HistoryItems ==
  AssembledWhole =>
    \A item \in FormattedItems :
      LET body == Trim(item.body)
          shown == genContentsString(item, result.userPrompt)
      IN /\ shown # "" =>
              (StartsWith(ContextPart, "[History]\n") /\ Includes(ContextPart, shown))
         /\ (Trim(item.login) # Automation /\ ~StartsWith(body, "/claude")) =>
              shown = ""
         /\ (body # "" /\ Trim(item.login) = Automation
               /\ ~StartsWith(body, "/claude")) =>
              /\ StartsWith(shown, "> ")
              /\ ~Includes(shown, "\n\n> ")
              /\ Len(shown) = Len(body) + 2 + 2 * Cardinality(
                   {i \in 1..Len(body) : SubSeq(body, i, i) = "\n"} \cup {0})
              /\ \A i \in 1..Len(body) :
                   SubSeq(body, i, i) = "\n" =>
                     \E j \in 1..Len(shown) - 2 : SubSeq(shown, j, j + 2) = "\n> "
         /\ (StartsWith(body, "/claude") /\ StrippedBody(item) # result.userPrompt) =>
              shown = StrippedBody(item) \o "\n\n"

\* a remark of a person is left out while the automation's reply of several
\* lines is quoted
C23_Witness ==
  /\ AssembledWhole
  /\ [body |-> "looks good", login |-> "bob"] \in FormattedItems
  /\ [body |-> BotReply, login |-> Automation] \in FormattedItems
  /\ Includes(ContextPart, "\n> It writes plain text lines.\n")
  /\ ~Includes(prompt, "looks good")

RECURSIVE EachLineQuoted(_)
\* the text with '> ' before every line
EachLineQuoted(text) ==
  LET n == IndexOf(text, "\n") IN
  IF n = 0 THEN "> " \o text
  ELSE "> " \o SubSeq(text, 1, n) \o EachLineQuoted(SubSeq(text, n + 1, Len(text)))

\* what an item gives by the four rules, in their order
ByTheRules(item, instruction) ==
  LET body == Trim(item.body)
      rest == Trim(SubSeq(body, Len("/claude") + 1, Len(body)))
  IN CASE body = "" -> ""
       [] body # "" /\ StartsWith(body, "/claude") ->
            IF rest = instruction THEN "" ELSE rest \o "\n\n"
       [] body # "" /\ ~StartsWith(body, "/claude") /\ item.login = Automation ->
            EachLineQuoted(body) \o "\n\n"
       [] OTHER -> ""

\* C24: genContentsString(item, instruction) is '' for an empty trimmed
\* body; else for a body starting with '/claude' the trimmed rest and a
\* blank line, or '' when the rest is the instruction; else for the author
\* 'github-actions[bot]' the body with '> ' before every line and a blank
\* line; '' for every other item.
C24_ContentsString ==
  (pc = "assembled" /\ Has(fetched)) =>
    \A item \in FormattedItems :
      genContentsString(item, result.userPrompt)
        = ByTheRules(item, result.userPrompt)

\* the formatted items cover the rules: an empty body, a '/claude' item
\* that repeats the instruction, and the automation's reply of several lines
C24_Witness ==
  /\ pc = "assembled" /\ Has(fetched)
  /\ [body |-> " \n", login |-> "bob"] \in FormattedItems
  /\ [body |-> BotReply, login |-> Automation] \in FormattedItems
  /\ \E item \in FormattedItems :
       /\ StartsWith(item.body, "/claude")
       /\ StrippedBody(item) = result.userPrompt
       /\ genContentsString(item, result.userPrompt) = ""

\* a '/claude' item with another instruction and a plain remark are
\* formatted
C24_WitnessOthers ==
  /\ pc = "assembled" /\ Has(fetched)
  /\ [body |-> "/claude rename the file", login |-> "bob"] \in FormattedItems
  /\ [body |-> "looks good", login |-> "bob"] \in FormattedItems
  /\ genContentsString([body |-> "/claude rename the file", login |-> "bob"],
                       result.userPrompt) = "rename the file\n\n"

---------------------------------------------------------------------------
(* Claims about the item limits *)

\* C25: with the item limits set to N > 0, the prompt the agent gets in a
\* run holds at most the N most recent history comments and at most the
\* first N changed files, with and without token truncation.
C25_ItemLimitsInRun ==
  \A e \in DOMAIN effects :
    (effects[e].kind = "agent" /\ Has(fetched) /\ Get(fetched).ok) =>
      LET comments == Get(fetched).contents.comments
          files == Get(fetched).prFiles
      IN /\ config.maxHistoryComments > 0 =>
              \A k \in 1..(Len(comments) - config.maxHistoryComments) :
                LET shown == genContentsString(comments[k], result.userPrompt)
                IN shown # "" => ~Includes(effects[e].body, shown)
         /\ config.maxChangedFilesInContext > 0 =>
              \A k \in (config.maxChangedFilesInContext + 1)..Len(files) :
                ~Includes(effects[e].body, files[k])

---------------------------------------------------------------------------
(* Claims about the messages of a run *)

\* C27: once the acknowledgment comment is posted, a run that has ended has
\* posted at least one further comment to the conversation, also when the
\* clone, the snapshot or the context fetch failed.
C27_MessageAfterAck ==
  pc = "done" =>
    \A i \in DOMAIN effects :
      (effects[i].kind = "comment" /\ effects[i].body = AckText) =>
        \E j \in DOMAIN effects : j > i /\ effects[j].kind = "comment"

---------------------------------------------------------------------------
(* Claims about the token budget *)

\* ceil(length / 4)
CeilQuarter(text) == (Len(text) + 3) \div 4

\* C28 as stated: whenever the token limit applies, the estimated token
\* count of the returned prompt, ceil(length / 4), is at most
\* maxContextTokens.
C28_WithinLimit ==
  (pc = "assembled" /\ OverLimit) =>
    CeilQuarter(prompt) <= config.maxContextTokens

\* C28: whenever the token limit applies, the estimated token count of the
\* returned prompt is at most maxContextTokens or, when that is less, the
\* count of the separator followed by the instruction.
C28_WithinLimitOrInstruction ==
  (pc = "assembled" /\ OverLimit) =>
    CeilQuarter(prompt) <=
      Max(config.maxContextTokens, CeilQuarter("---\n\n" \o result.userPrompt))

\* the context is cut with the marker and the prompt fits the limit
C28_Witness ==
  /\ pc = "assembled" /\ OverLimit
  /\ Includes(prompt, TruncationMarker)
  /\ CeilQuarter(FullPrompt) > config.maxContextTokens
  /\ CeilQuarter(prompt) <= config.maxContextTokens

---------------------------------------------------------------------------
(* Claims about postComment *)

\* the message names a transient network condition
Transient(message) ==
  \E word \in {"EPIPE", "ECONNRESET", "ETIMEDOUT", "timeout", "network"} :
    Includes(message, word)

\* the waits so far are retryDelay times 1, 2, 3, ...
WaitsGrow ==
  /\ Len(post.waits) = post.retries
  /\ \A k \in DOMAIN post.waits : post.waits[k] = post.retryDelay * k

\* a pass after the first one follows an error with a transient condition
RetriesOnlyTransient ==
  (post.pc \in {"try", "fallback"} /\ post.retries > 0) =>
    Transient(post.error)

\* the return without a comment follows another error or the last retry
GivesUp ==
  (post.pc = "returned" /\ ~post.posted /\ post.event # "none") =>
    (~Transient(post.error) \/ post.retries = post.maxRetries)

\* C29 as stated: postComment makes at most maxRetries + 1 posting
\* attempts, starts a new one only after a transient error, waits
\* retryDelay times the number of the retry, and returns without posting
\* after any other error or with the retries used up.
C29_AtMostOnePostPerRetry ==
  /\ post.calls <= post.maxRetries + 1
  /\ post.pc = "fallback" => Transient(post.error)
  /\ WaitsGrow
  /\ RetriesOnlyTransient
  /\ GivesUp

\* what holds in every state of a call: at most maxRetries + 1 passes of
\* the loop, one API call per pass for an issue event and at most two for a
\* review-comment event
PostBounded ==
  /\ post.attempts <= post.maxRetries + 1
  /\ post.attempts <= post.retries + 1
  /\ post.event = "issue" => post.calls <= post.attempts
  /\ post.event = "pull_request" => post.calls <= 2 * post.attempts
  /\ post.event = "none" => post.calls = 0
  /\ WaitsGrow
  /\ RetriesOnlyTransient
  /\ GivesUp

\* C29: postComment always returns; it makes at most maxRetries + 1 passes
\* of its loop, each with one API call, or with up to two for a review
\* comment (the reply and the regular comment it falls back to); a new pass
\* starts only after a transient error and a wait of retryDelay times the
\* number of the retry; it returns without a comment after any other error
\* or with the retries used up.
C29_PostCommentReturns == []PostBounded /\ <>(post.pc = "returned")

\* three retries with growing waits, then the return without a comment
C29_Witness ==
  /\ post.pc = "returned" /\ ~post.posted
  /\ post.maxRetries = DefaultMaxRetries
  /\ post.retryDelay = DefaultRetryDelay
  /\ post.attempts = 4
  /\ post.waits = <<1000, 2000, 3000>>

\* a review comment: the reply fails, the regular comment is posted in the
\* same pass
C29_WitnessFallback ==
  /\ post.pc = "returned" /\ post.posted
  /\ post.event = "pull_request"
  /\ post.attempts = 1 /\ post.calls = 2

---------------------------------------------------------------------------
(* Claims about unchanged files *)

\* C30: a file with the same content and size at both captures is never in
\* the ChangeSet, whatever else changed in the workspace between them, the
\* ignore file included: it is in both snapshots with the same digest or in
\* neither.
C30_UnchangedNeverReported ==
  AfterTaken =>
    \A p \in FsPaths :
      (before[p].exists /\ before[p] = workspace[p]) =>
        /\ p \notin changedFiles
        /\ (p \in DOMAIN originalState <=> p \in DOMAIN currentState)

====
